---- MODULE Spec2Model ----
(***************************************************************************)
(* SafeLink backend: the ARP detection pipeline (DFA filter, ARP analyzer, *)
(* MAC vendor checker, packet handler), the load balancer of the           *)
(* multi-interface sniffer and the continuous learner with its classifier, *)
(* the alert store and hub, the sniffer manager, the threat-intelligence   *)
(* table, the mitigation service and the packet buffer.                    *)
(*                                                                         *)
(* One module, several specifications: each specification drives one       *)
(* subsystem and leaves the state of the others at its initial value.      *)
(*   SpecDFA      DFAFilter.check on a stream of frames                    *)
(*   SpecSniffer  _handle_pkt on a stream of frames                        *)
(*   SpecLB       LoadBalancer.assign_packet and its worker threads        *)
(*   SpecLearner  ContinuousLearner cycles, train-now requests, inference  *)
(*   SpecCycles   ContinuousLearner cycles alone                           *)
(*   SpecLabeler  the auto-labeller applied to one alert                   *)
(*   SpecStore    the alerts table: inserts, archive_alerts, rotation      *)
(*   SpecHub      generate_alert and the WebSocket broadcast               *)
(*   SpecManager  SnifferManager.start and stop with the capture thread    *)
(*   SpecIntel    ThreatIntelService: add_indicator and search_indicator   *)
(*   SpecMitigation  MitigationService: requests, approval, execution      *)
(*   SpecPipeline _handle_pkt over a long run of the clock                 *)
(*   SpecBuffer   PacketBuffer.put and get_batch                           *)
(*   SpecLife     start_continuous_learning and stop_continuous_learning   *)
(*   SpecFanout   generate_alert called from several threads               *)
(*   SpecInterfaces  InterfaceManager: add_interface and get_stats         *)
(*   SpecProducers   PacketBuffer.put called from several sniffers         *)
(*   SpecRestart  ContinuousLearner cycles with a restart of the process   *)
(***************************************************************************)
EXTENDS Integers, Naturals, Sequences, FiniteSets, TLC

(***************************************************************************)
(* Time.  time.time() is a float of seconds; the model counts ticks of     *)
(* 50 ms, the finest grain any comparison of the pipeline needs (the       *)
(* 100 ms inter-arrival test of the ARP analyzer).  The clock is assumed   *)
(* not to run backwards.                                                   *)
(***************************************************************************)
TicksPerSecond == 20

\* how many times the clock advances in one run
MaxAdvances == 2

\* the amounts the clock advances by: 50 ms and 5 s (two steps of 50 ms make
\* the 100 ms of the analyzer's inter-arrival test, 5 s and 50 ms exceed the
\* filter's window)
TimeSteps == {1, 100}

None == "None"

(***************************************************************************)
(* Frames.  A frame either carries an ARP layer with psrc, hwsrc, pdst,    *)
(* hwdst and op, or carries none.                                          *)
(***************************************************************************)
IPs == {"10.0.0.1", "10.0.0.2"}

\* source MACs: two with an unknown, locally administered OUI (as
\* aa:bb:cc:..; ba:dd:c0:..) and one of a registered vendor
SrcMACs == {"aa:bb:cc:11:22:33", "ba:dd:c0:ff:ee:00", "00:50:56:00:00:01"}

Broadcast == "ff:ff:ff:ff:ff:ff"

DstMACs == {"00:50:56:00:00:01", Broadcast}

NonArpFrame == [arp |-> FALSE, psrc |-> None, hwsrc |-> None,
                pdst |-> None, hwdst |-> None, op |-> 0]

ArpFrames == [arp : {TRUE}, psrc : IPs, hwsrc : SrcMACs,
              pdst : IPs, hwdst : DstMACs, op : {1, 2}]

\* the frames fed to DFAFilter.check alone: only psrc and hwsrc matter to it
DFAFrames == {f \in ArpFrames : f.pdst = "10.0.0.2" /\ f.hwdst = Broadcast
                               /\ f.op = 2
                               /\ f.hwsrc # "00:50:56:00:00:01"}
             \cup {NonArpFrame}

\* keys of the gratuitous-count map: a frame without ARP layer reads as None
MacKeys == SrcMACs \cup {None}

VARIABLES
    now,            \* the clock, in ticks
    nAdvances,      \* number of clock advances so far
    ip_mac,         \* DFAFilter.ip_mac: ip -> mac
    grat_counts,    \* DFAFilter.grat_counts: mac -> deque of timestamps
    dfa_ret,        \* what the last DFAFilter.check returned
    lastPkt,        \* the frame of the last call
    nChecks,        \* number of DFAFilter.check calls so far
    last_packet_time,   \* ARPAnalyzer.last_packet_time: ip -> time
    packet_history,     \* ARPAnalyzer.packet_history: ip -> deque of packets
    pending_requests,   \* ARPAnalyzer.pending_requests: (ip, ip) -> time
    stats,              \* ARPAnalyzer.stats
    alerts,             \* the rows of the alerts table, in insertion order
    next_alert_id,      \* the autoincrement counter of the alerts table
    handled,            \* the last frame handled and the alert raised on it
    nPkts,              \* number of frames handled so far
    nAlerts,            \* number of AlertSystem.alert calls so far
    strategy,           \* LoadBalancer.strategy
    lb_lock,            \* holder of LoadBalancer.lock, or None
    rr_counter,         \* LoadBalancer.rr_counter
    interface_affinity, \* LoadBalancer.interface_affinity: interface -> lane
    worker_stats,       \* LoadBalancer.worker_stats, per lane
    worker_queues,      \* LoadBalancer.worker_queues, per lane
    lb_running,         \* LoadBalancer.running
    worker_threads,     \* per lane and generation: the worker thread's
                        \* position and the frame it holds
    workers,            \* self.workers: the generations of the threads in it
    nStarts,            \* number of start_workers calls that started threads
    stop_pc,            \* position of the stop_workers call
    stop_seen,          \* per lane: the number of frames accepted when
                        \* stop_workers cleared the flag
    lb_pkt,             \* per interface: the frame of its assign_packet call
    lane_accepted,      \* per lane: the frames put on its queue, in order
    lane_handled,       \* per lane: the frames given to processor_func, in
                        \* order
    lb_pc,              \* per capture thread: its position in assign_packet
    lb_worker_id,       \* per capture thread: the lane it has selected
    lb_ret,             \* per capture thread: what its last call returned
    nAssign,            \* number of assign_packet calls so far
    placed,             \* the (interface, lane) pairs of the frames queued
    is_training,        \* ContinuousLearner.is_training
    should_stop,        \* ContinuousLearner.should_stop
    last_training_time, \* ContinuousLearner.last_training_time, optional
    last_processed_id,  \* ContinuousLearner.last_processed_id
    training_history,   \* ContinuousLearner.training_history
    model_versions,     \* ContinuousLearner.model_versions
    stats_file,         \* continuous_learning_stats.json, or None
    disk_model,         \* the weights held by the model file
    mem_model,          \* the weights held by ANNDetector.model
    model_mode,         \* "eval" or "train": the mode of ANNDetector.model
    backups,            \* the files of the backup directory: path -> weights
    loop_pc,            \* position of the learning loop thread
    wake_at,            \* when the learning loop's sleep ends
    cyc,                \* per thread: its position in a training cycle
    pred_pc,            \* position of the sniffer thread in predict
    train_now,          \* the status of the last train-now answer, or None
    nCycles,            \* number of training cycles begun so far
    lab_alert,          \* the alert of the last _auto_label_alert call
    lab_label,          \* the label that call returned
    lab_samples,        \* the number of training samples the alert gave
    dialect,            \* the database DATABASE_URL names
    archived_alerts,    \* the rows of the archived_alerts table
    arch,               \* per API thread: its position in archive_alerts
    committed_rows,     \* every alert row ever committed, in commit order
    insert_ret,         \* how the last generate_alert call ended
    nInserts,           \* number of generate_alert calls so far
    nArchives,          \* number of archive and rotate calls so far
    active_connections, \* ConnectionManager.active_connections
    ws_closed,          \* per subscriber: its socket has been closed
    sockbuf,            \* per subscriber: the events sent and not yet read
    received,           \* per subscriber: the events it has read
    mgr_sniffer,        \* SnifferManager._sniffer: the sniffer it holds, if any
    sniffer_thread,     \* per sniffer created: the state of its capture thread
    mgr_interface,      \* SnifferManager._interface
    mgr_ret,            \* outcome of the last start or stop request
    nSniffers,          \* number of sniffers created
    ti_row,             \* the threat_indicators row of the one indicator, if any
    ti_call,            \* per caller: its position in search_indicator and
                        \* the row its session has loaded
    ti_ret,             \* per caller: what its last lookup returned
    ti_matched,         \* number of lookups that returned the indicator
    nLookups,           \* number of search_indicator calls so far
    mit_actions,        \* the rows of the table mitigation_actions, by id
    whitelist,          \* the rows of the table whitelist
    mit_exec,           \* per executor: its position in execute_mitigation
    mit_ret,            \* outcome of the last request to the service
    backend_calls,      \* the calls made to a backend: the action, and what
                        \* the tables held when the call was made
    nExecs,             \* number of execute_mitigation calls so far
    pb_queue,           \* PacketBuffer.queue: the frames buffered, oldest first
    pb_stats,           \* PacketBuffer.stats
    pb_config,          \* PacketBuffer.overflow_strategy and enable_stats
    pb_ret,             \* what the last PacketBuffer.put returned
    nPuts,              \* number of PacketBuffer.put calls so far
    last_control,       \* the last learner control call that returned:
                        \* "start", "stop" or None
    stopper_pc,         \* position of the stop_continuous_learning call
    join_until,         \* when the join of that call times out
    pub,                \* per producer thread: the broadcast its
                        \* generate_alert call is running
    pub_done,           \* the alerts whose broadcast has returned
    pub_before,         \* the pairs <<a, b>> of alerts such that the
                        \* broadcast of a returned before that of b began
    nPublished,         \* number of alerts the producer threads committed
    im_interfaces,      \* InterfaceManager.interfaces: the names registered
    im_lock,            \* the thread that holds InterfaceManager.lock, or None
    im_call,            \* per caller: its position in get_stats
    nStatsCalls,        \* number of get_stats calls made from outside
    pb_put,             \* per capture thread: its position in PacketBuffer.put
    nRestarts,          \* number of times the process has been restarted
    bc                  \* the broadcast the producer thread is running

dfaVars == <<ip_mac, grat_counts, dfa_ret, lastPkt, nChecks>>
clockVars == <<now, nAdvances>>
analyzerVars == <<last_packet_time, packet_history, pending_requests, stats>>
alertVars == <<alerts, next_alert_id>>
handlerVars == <<handled, nPkts, nAlerts>>
lbVars == <<strategy, lb_lock, rr_counter, interface_affinity, worker_stats,
            worker_queues, lb_running, worker_threads, workers, nStarts,
            stop_pc, stop_seen, lb_pc, lb_worker_id, lb_ret, nAssign, placed,
            lb_pkt, lane_accepted, lane_handled>>
snifferVars == <<dfaVars, analyzerVars, alertVars, handlerVars>>
learnerVars == <<is_training, should_stop, last_training_time,
                 last_processed_id, training_history, model_versions,
                 stats_file, disk_model, mem_model, model_mode, backups,
                 loop_pc, wake_at, cyc, pred_pc, train_now, nCycles>>
labelerVars == <<lab_alert, lab_label, lab_samples>>
storeVars == <<dialect, archived_alerts, arch, committed_rows, insert_ret,
               nInserts, nArchives>>
hubVars == <<active_connections, ws_closed, sockbuf, received, bc>>
managerVars == <<mgr_sniffer, sniffer_thread, mgr_interface, mgr_ret,
                 nSniffers>>
intelVars == <<ti_row, ti_call, ti_ret, ti_matched, nLookups>>
mitigationVars == <<mit_actions, whitelist, mit_exec, mit_ret, backend_calls,
                    nExecs>>
bufferVars == <<pb_queue, pb_stats, pb_config, pb_ret, nPuts>>
lifeVars == <<last_control, stopper_pc, join_until>>
fanoutVars == <<pub, pub_done, pub_before, nPublished>>
ifaceVars == <<im_interfaces, im_lock, im_call, nStatsCalls>>
putVars == <<pb_put>>
restartVars == <<nRestarts>>
lateVars == <<lifeVars, fanoutVars, ifaceVars, putVars, restartVars>>
controlVars == <<managerVars, intelVars, mitigationVars, bufferVars,
                 lateVars>>
baseVars == <<clockVars, snifferVars, lbVars, learnerVars, labelerVars,
              storeVars, hubVars>>
notManager == <<baseVars, intelVars, mitigationVars, bufferVars, lateVars>>
notMitigation == <<baseVars, managerVars, intelVars, bufferVars, lateVars>>
notBuffer == <<baseVars, managerVars, intelVars, mitigationVars, lateVars>>
notIntel == <<snifferVars, lbVars, learnerVars, labelerVars, storeVars,
              hubVars, managerVars, mitigationVars, bufferVars, lateVars>>
serviceVars == <<labelerVars, storeVars, hubVars, controlVars>>
otherThanLB == <<clockVars, snifferVars, learnerVars, serviceVars>>

vars == <<clockVars, snifferVars, lbVars, learnerVars, serviceVars>>

(***************************************************************************)
(* DFAFilter  (core/dfa_filter.py)                                         *)
(***************************************************************************)
\* gratuitous_threshold and grat_window, the constructor's defaults
grat_threshold == 5
grat_window == 5 * TicksPerSecond

\* number of DFAFilter.check calls in one run
MaxChecks == 6

EmptyMap == [x \in {} |-> None]

RetOk == [is_bad |-> FALSE, reason |-> "ok", ip |-> None,
          prev_mac |-> None, new_mac |-> None, mac |-> None, count |-> 0]

\* while dq and (now - dq[0] > self.grat_window): dq.popleft()
PopOld_Once(dq, t) ==
    IF dq # <<>> /\ t - Head(dq) > grat_window THEN Tail(dq) ELSE dq

RECURSIVE PopOld(_, _)
PopOld(dq, t) ==
    IF dq # <<>> /\ t - Head(dq) > grat_window
    THEN PopOld(Tail(dq), t)
    ELSE dq

\* Rule 1: if src_ip in self.ip_mac: if self.ip_mac[src_ip] != src_mac
IsConflict_AnyBound(im, src_ip, src_mac) == src_ip \in DOMAIN im

IsConflict(im, src_ip, src_mac) ==
    src_ip \in DOMAIN im /\ im[src_ip] # src_mac

\* DFAFilter.check(pkt) at time t on the maps im (ip_mac) and gc
\* (grat_counts): the returned triple and the maps it leaves.
\* pkt.getlayer("ARP") of a frame without ARP layer is None, and getattr
\* with a default then reads psrc and hwsrc as None: no exception is
\* raised and the rules run on (None, None).
DFACheck(pkt, t, im, gc) ==
    LET src_ip == IF pkt.arp THEN pkt.psrc ELSE None
        src_mac == IF pkt.arp THEN pkt.hwsrc ELSE None
    IN  IF IsConflict(im, src_ip, src_mac)
        THEN \* Rule 1: conflict; returns before Rule 2
             [ret |-> [is_bad |-> TRUE, reason |-> "IP-MAC conflict",
                       ip |-> src_ip, prev_mac |-> im[src_ip],
                       new_mac |-> src_mac, mac |-> None, count |-> 0],
              ip_mac |-> [im EXCEPT ![src_ip] = src_mac],
              grat_counts |-> gc]
        ELSE LET im2 == IF src_ip \in DOMAIN im THEN im
                        ELSE (src_ip :> src_mac) @@ im
                 dq == PopOld(Append(gc[src_mac], t), t)
                 gc2 == [gc EXCEPT ![src_mac] = dq]
             IN  IF Len(dq) > grat_threshold
                 THEN [ret |-> [is_bad |-> TRUE,
                                reason |-> "Excessive gratuitous ARPs",
                                ip |-> None, prev_mac |-> None,
                                new_mac |-> None, mac |-> src_mac,
                                count |-> Len(dq)],
                       ip_mac |-> im2, grat_counts |-> gc2]
                 ELSE [ret |-> RetOk, ip_mac |-> im2, grat_counts |-> gc2]

(***************************************************************************)
(* ARPAnalyzer  (core/arp_analyzer.py)                                     *)
(* Severities and confidences are sums of tenths; the model keeps them as  *)
(* integers of tenths (no sum of the code's weights rounds across one of   *)
(* the handler's thresholds).  stats["avg_inter_arrival"], a running float *)
(* mean that nothing reads, is left out.                                   *)
(***************************************************************************)
\* ARPAnalyzer(max_history=1000): maxlen of every per-IP history deque
analyzer_max_history == 1000

InitAnalyzer ==
    /\ last_packet_time = EmptyMap
    /\ packet_history = [ip \in IPs |-> <<>>]
    /\ pending_requests = EmptyMap
    /\ stats = [total_packets |-> 0, gratuitous_count |-> 0,
                probe_count |-> 0, request_count |-> 0, reply_count |-> 0,
                unmatched_replies |-> 0]

\* dst_mac.upper() == "FF:FF:FF:FF:FF:FF"
IsBroadcastMac(mac) == mac = Broadcast

_is_gratuitous_arp(src_ip, dst_ip, opcode, dst_mac) ==
    \/ src_ip = dst_ip
    \/ (opcode = 2 /\ IsBroadcastMac(dst_mac))

_is_arp_probe(src_ip, opcode) == opcode = 1 /\ src_ip = "0.0.0.0"

_update_statistics(st, info, opcode) ==
    [st EXCEPT
       !.total_packets = @ + 1,
       !.gratuitous_count = IF info.is_gratuitous THEN @ + 1 ELSE @,
       !.probe_count = IF info.is_probe THEN @ + 1 ELSE @,
       !.request_count = IF opcode = 1 THEN @ + 1 ELSE @,
       !.reply_count = IF opcode = 2 THEN @ + 1 ELSE @]

\* deque(maxlen=max_history).append
DequeAppend(dq, x) ==
    IF Len(dq) >= analyzer_max_history THEN Append(Tail(dq), x) ELSE Append(dq, x)

\* the map m without the key k
MapRemove(m, k) == [x \in DOMAIN m \ {k} |-> m[x]]

\* the map m with k bound to v
MapPut(m, k, v) == (k :> v) @@ m

\* the key under which the request a reply answers is pending:
\* (dst_ip, src_ip) of the reply
ReplyKey_Same(pkt) == <<pkt.psrc, pkt.pdst>>

ReplyKey(pkt) == <<pkt.pdst, pkt.psrc>>

\* ARPAnalyzer.analyze_packet at time t: the ARPPacketInfo it returns and
\* the analyzer state it leaves (lpt: last_packet_time, ph: packet_history,
\* pr: pending_requests, st: stats)
analyze_packet(pkt, t, lpt, ph, pr, st) ==
    LET inter_arrival == IF pkt.psrc \in DOMAIN lpt
                         THEN t - lpt[pkt.psrc] ELSE 0
        info == [timestamp |-> t, src_mac |-> pkt.hwsrc,
                 dst_mac |-> pkt.hwdst, src_ip |-> pkt.psrc,
                 dst_ip |-> pkt.pdst, opcode |-> pkt.op,
                 is_gratuitous |-> _is_gratuitous_arp(pkt.psrc, pkt.pdst,
                                                      pkt.op, pkt.hwdst),
                 is_probe |-> _is_arp_probe(pkt.psrc, pkt.op),
                 inter_arrival_time |-> inter_arrival]
        st1 == _update_statistics(st, info, pkt.op)
        matched == ReplyKey(pkt) \in DOMAIN pr
    IN  [info |-> info,
         last_packet_time |-> MapPut(lpt, pkt.psrc, t),
         packet_history |->
             [ph EXCEPT ![pkt.psrc] =
                  DequeAppend(@, [timestamp |-> t,
                                  inter_arrival_time |-> inter_arrival])],
         pending_requests |->
             IF pkt.op = 1 THEN MapPut(pr, <<pkt.psrc, pkt.pdst>>, t)
             ELSE IF pkt.op = 2 /\ matched
                  THEN MapRemove(pr, ReplyKey(pkt))
                  ELSE pr,
         stats |->
             IF pkt.op = 2 /\ ~matched
             THEN [st1 EXCEPT !.unmatched_replies = @ + 1]
             ELSE st1]

\* cleanup_old_entries(max_age) at time t over the pending requests pr: the
\* entries that are left.  No code of the repository calls it.
max_age == 300

cleanup_old_entries(pr, t) ==
    LET keep == {k \in DOMAIN pr : ~(t - pr[k] > max_age * TicksPerSecond)}
    IN  [k \in keep |-> pr[k]]

\* get_timing_features(src_ip)["packet_rate"] > 10.0, the one timing feature
\* detect_anomalies reads: len(packets) / time_span packets per second
HighPacketRate(packets) ==
    /\ Len(packets) >= 2
    /\ \E i \in 1..Len(packets) : packets[i].inter_arrival_time > 0
    /\ LET time_span == packets[Len(packets)].timestamp - packets[1].timestamp
       IN  /\ time_span > 0
           /\ Len(packets) * TicksPerSecond > 10 * time_span

Min(a, b) == IF a < b THEN a ELSE b

\* ARPAnalyzer.detect_anomalies(packet_info) on the analyzer state that
\* analyze_packet left: has_anomaly, the anomalies found, severity in tenths
arp_detect_anomalies(info, ph, pr) ==
    LET gratuitous == info.is_gratuitous
        probe == info.is_probe
        high_rate == HighPacketRate(ph[info.src_ip])
        rapid == /\ info.inter_arrival_time > 0
                 /\ 10 * info.inter_arrival_time < TicksPerSecond
        unsolicited == /\ info.opcode = 2
                       /\ <<info.dst_ip, info.src_ip>> \notin DOMAIN pr
        severity == (IF gratuitous THEN 4 ELSE 0) + (IF probe THEN 1 ELSE 0)
                    + (IF high_rate THEN 3 ELSE 0) + (IF rapid THEN 2 ELSE 0)
                    + (IF unsolicited THEN 5 ELSE 0)
    IN  [has_anomaly |-> gratuitous \/ probe \/ high_rate \/ rapid
                         \/ unsolicited,
         anomalies |->
             (IF gratuitous THEN <<"Gratuitous ARP detected">> ELSE <<>>)
             \o (IF probe THEN <<"ARP probe detected">> ELSE <<>>)
             \o (IF high_rate THEN <<"High packet rate">> ELSE <<>>)
             \o (IF rapid THEN <<"Rapid packets">> ELSE <<>>)
             \o (IF unsolicited
                 THEN <<"Unsolicited ARP reply (no matching request)">>
                 ELSE <<>>),
         unsolicited |-> unsolicited,
         severity |-> Min(severity, 10)]

(***************************************************************************)
(* MACVendorChecker  (core/mac_vendor.py)                                  *)
(* The memo cache of lookup_vendor holds what the OUI table holds and is   *)
(* left out.                                                               *)
(***************************************************************************)
\* OUI_DATABASE.get(get_oui(mac)) is not None: of the MACs of the model only
\* 00:50:56 (VMware) is in the table
KnownVendor(mac) == mac = "00:50:56:00:00:01"

\* int(mac.split(":")[0], 16)
FirstOctet(mac) ==
    CASE mac = "aa:bb:cc:11:22:33" -> 170
      [] mac = "ba:dd:c0:ff:ee:00" -> 186
      [] mac = "00:50:56:00:00:01" -> 0
      [] mac = Broadcast -> 255

\* src_mac.startswith("FF:FF") or src_mac.startswith("01:00"): the test is
\* case sensitive and the MACs of a captured frame are lower case
StartsWithBroadcastPrefix(mac) == FALSE

\* MACVendorChecker.detect_anomalies: has_anomaly and confidence in tenths
vendor_detect_anomalies(src_mac, dst_mac) ==
    LET unknown_src == ~KnownVendor(src_mac)
        unknown_dst == ~KnownVendor(dst_mac)
        bcast == StartsWithBroadcastPrefix(src_mac)
        local == (FirstOctet(src_mac) \div 2) % 2 = 1
        confidence == (IF unknown_src THEN 3 ELSE 0)
                      + (IF unknown_dst THEN 1 ELSE 0)
                      + (IF bcast THEN 4 ELSE 0) + (IF local THEN 2 ELSE 0)
    IN  [has_anomaly |-> unknown_src \/ unknown_dst \/ bcast \/ local,
         confidence |-> Min(confidence, 10)]

(***************************************************************************)
(* AlertSystem  (core/alert_system.py)                                     *)
(***************************************************************************)
InitAlerts == alerts = <<>> /\ next_alert_id = 1

NoAlert == [module |-> None, reason |-> None, src_ip |-> None,
            src_mac |-> None]

\* AlertSystem.generate_alert: the rows of the table after the insert; a
\* failing commit is rolled back and leaves no row
generate_alert(rows, id, a, db_ok) ==
    IF db_ok
    THEN Append(rows, [id |-> id, module |-> a.module, reason |-> a.reason,
                       src_ip |-> a.src_ip, src_mac |-> a.src_mac])
    ELSE rows

(***************************************************************************)
(* _handle_pkt  (core/packet_sniffer.py)                                   *)
(* One clock value stands for the time.time() calls of one frame.          *)
(* ANNDetector.predict_from_scapy is the output of a trained network: the  *)
(* model draws the predicted label from {0, 1}.                            *)
(***************************************************************************)
\* number of frames handled in one run
MaxPkts == 2

InitHandler ==
    /\ handled = [pkt |-> NonArpFrame, alert |-> NoAlert]
    /\ nPkts = 0
    /\ nAlerts = 0

\* mac = details.get("new_mac") or details.get("mac")
DfaAlertMac_Prev(d) == IF d.prev_mac # None THEN d.prev_mac ELSE d.mac

DfaAlertMac(d) == IF d.new_mac # None THEN d.new_mac ELSE d.mac

\* The reason of an ARP_ANOMALY alert, "ARP anomaly: " followed by the
\* anomalies joined with commas, is kept as the sequence of its parts.
\* the alert _handle_pkt raises on an ARP frame, or NoAlert: d is the result
\* of DFAFilter.check, arp and vendor the anomaly results, predicted the
\* label of the classifier
HandlerAlert(pkt, d, arp, vendor, predicted) ==
    IF d.is_bad
    THEN [module |-> "DFA", reason |-> d.reason, src_ip |-> d.ip,
          src_mac |-> DfaAlertMac(d)]
    ELSE IF arp.has_anomaly /\ arp.severity > 5
    THEN [module |-> "ARP_ANOMALY",
          reason |-> <<"ARP anomaly">> \o arp.anomalies,
          src_ip |-> pkt.psrc, src_mac |-> pkt.hwsrc]
    ELSE IF vendor.has_anomaly /\ vendor.confidence > 4
    THEN [module |-> "VENDOR_ANOMALY", reason |-> "MAC vendor anomaly",
          src_ip |-> pkt.psrc, src_mac |-> pkt.hwsrc]
    ELSE IF predicted = 1
    THEN [module |-> "ANN", reason |-> "Model predicted spoof",
          src_ip |-> pkt.psrc, src_mac |-> pkt.hwsrc]
    ELSE NoAlert

\* _handle_pkt on a frame without ARP layer: returns at once
HandleNonArp(pkt) ==
    /\ nPkts < MaxPkts
    /\ ~pkt.arp
    /\ handled' = [pkt |-> pkt, alert |-> NoAlert]
    /\ nPkts' = nPkts + 1
    /\ UNCHANGED <<clockVars, dfaVars, analyzerVars, alertVars, nAlerts,
                   lbVars, learnerVars, serviceVars>>

\* _handle_pkt on an ARP frame
HandleArp(pkt, predicted, db_ok) ==
    /\ nPkts < MaxPkts
    /\ pkt.arp
    /\ LET a == analyze_packet(pkt, now, last_packet_time, packet_history,
                               pending_requests, stats)
           arp == arp_detect_anomalies(a.info, a.packet_history,
                                       a.pending_requests)
           vendor == vendor_detect_anomalies(pkt.hwsrc, pkt.hwdst)
           d == DFACheck(pkt, now, ip_mac, grat_counts)
           al == HandlerAlert(pkt, d.ret, arp, vendor, predicted)
       IN  /\ last_packet_time' = a.last_packet_time
           /\ packet_history' = a.packet_history
           /\ pending_requests' = a.pending_requests
           /\ stats' = a.stats
           /\ ip_mac' = d.ip_mac
           /\ grat_counts' = d.grat_counts
           /\ dfa_ret' = d.ret
           /\ handled' = [pkt |-> pkt, alert |-> al]
           /\ IF al # NoAlert
              THEN /\ alerts' = generate_alert(alerts, next_alert_id, al, db_ok)
                   /\ next_alert_id' = IF db_ok THEN next_alert_id + 1
                                       ELSE next_alert_id
                   /\ nAlerts' = nAlerts + 1
              ELSE UNCHANGED <<alerts, next_alert_id, nAlerts>>
    /\ lastPkt' = pkt
    /\ nChecks' = nChecks + 1
    /\ nPkts' = nPkts + 1
    /\ UNCHANGED <<clockVars, lbVars, learnerVars, serviceVars>>

InitClock == now = 0 /\ nAdvances = 0

InitDFA ==
    /\ ip_mac = EmptyMap
    /\ grat_counts = [m \in MacKeys |-> <<>>]
    /\ dfa_ret = RetOk
    /\ lastPkt = NonArpFrame
    /\ nChecks = 0


(***************************************************************************)
(* LoadBalancer  (core/multi_interface.py)                                 *)
(* One capture thread per interface calls assign_packet for its frames     *)
(* (MultiInterfaceSniffer.start, handler); one worker thread per lane      *)
(* takes frames off the lane's queue.  LoadBalancer.lock is a              *)
(* threading.Lock: a thread that holds it and acquires it again waits for  *)
(* itself.  A frame on a queue is the pair (packet, interface_name); the    *)
(* packet of the n-th assign_packet call is n.                             *)
(***************************************************************************)
Interfaces == {"eth0", "eth1"}

Strategies == {"round-robin", "least-loaded", "affinity"}

\* LoadBalancer(num_workers): the number of lanes
NumWorkers == 2

Lanes == 0..(NumWorkers - 1)

\* queue.Queue(maxsize=...): the capacity of a lane's queue (1000 in the
\* source)
QueueMaxSize == 2

\* number of assign_packet calls in one run
MaxAssign == 3

\* number of start_workers calls that start threads in one run
MaxStarts == 2

Generations == 1..MaxStarts

\* a thread that is not started or has ended, and one at its loop test
NoThread == [pc |-> "dead", item |-> <<>>]

AtLoop == [pc |-> "loop", item |-> <<>>]

InitLB ==
    /\ strategy = "least-loaded"
    /\ lb_lock = None
    /\ rr_counter = 0
    /\ interface_affinity = EmptyMap
    /\ worker_stats = [w \in Lanes |-> [packets_processed |-> 0, errors |-> 0,
                                        interfaces |-> <<>>,
                                        is_active |-> TRUE]]
    /\ worker_queues = [w \in Lanes |-> <<>>]
    /\ lb_running = FALSE
    /\ worker_threads = [w \in Lanes |-> [g \in Generations |-> NoThread]]
    /\ workers = {}
    /\ nStarts = 0
    /\ stop_pc = "idle"
    /\ stop_seen = [w \in Lanes |-> 0]
    /\ lb_pkt = [i \in Interfaces |-> 0]
    /\ lane_accepted = [w \in Lanes |-> <<>>]
    /\ lane_handled = [w \in Lanes |-> <<>>]
    /\ lb_pc = [i \in Interfaces |-> "idle"]
    /\ lb_worker_id = [i \in Interfaces |-> 0]
    /\ lb_ret = [i \in Interfaces |-> None]
    /\ nAssign = 0
    /\ placed = {}

\* the loop of _get_least_loaded_worker: the first active lane of minimal
\* load, lane 0 when no lane is active
LeastLoaded(ws) ==
    LET active == {w \in Lanes : ws[w].is_active}
    IN  IF active = {} THEN 0
        ELSE CHOOSE w \in active :
               \A v \in active :
                  \/ ws[w].packets_processed < ws[v].packets_processed
                  \/ (ws[w].packets_processed = ws[v].packets_processed
                      /\ w <= v)

\* LoadBalancer(strategy = s): the balancer is built with another strategy
\* than the default one, before any of its methods runs
NewLoadBalancer(s) ==
    /\ strategy = "least-loaded" /\ s # strategy
    /\ nAssign = 0 /\ ~lb_running /\ nStarts = 0
    /\ \A w \in Lanes : worker_stats[w].is_active
    /\ strategy' = s
    /\ UNCHANGED <<lb_lock, rr_counter, interface_affinity, worker_stats,
                   worker_queues, lb_running, worker_threads,
                   workers, nStarts, stop_pc, lb_pkt, lane_accepted,
                   lane_handled, lb_pc,
                   lb_worker_id, lb_ret, nAssign, placed,
                   stop_seen>>
    /\ UNCHANGED otherThanLB

\* assign_packet is called for a frame of interface i: the strategy selects
\* the function that picks the lane
AssignPacket(i) ==
    /\ nAssign < MaxAssign
    /\ lb_pc[i] = "idle"
    /\ lb_pc' = [lb_pc EXCEPT ![i] =
                    CASE strategy = "round-robin" -> "round_robin"
                      [] strategy = "least-loaded" -> "least_loaded"
                      [] strategy = "affinity" -> "affinity"]
    /\ lb_ret' = [lb_ret EXCEPT ![i] = None]
    /\ nAssign' = nAssign + 1
    /\ lb_pkt' = [lb_pkt EXCEPT ![i] = nAssign + 1]
    /\ UNCHANGED <<strategy, lb_lock, rr_counter, interface_affinity,
                   worker_stats, worker_queues, lb_running, worker_threads,
                   workers, nStarts, stop_pc, lane_accepted, lane_handled,
                   lb_worker_id, placed,
                   stop_seen>>
    /\ UNCHANGED otherThanLB

\* _get_round_robin_worker: the body runs with the lock held
GetRoundRobinWorker(i) ==
    /\ lb_pc[i] = "round_robin"
    /\ lb_lock = None
    /\ lb_worker_id' = [lb_worker_id EXCEPT ![i] = rr_counter % NumWorkers]
    /\ rr_counter' = rr_counter + 1
    /\ lb_pc' = [lb_pc EXCEPT ![i] = "put"]
    /\ UNCHANGED <<strategy, lb_lock, interface_affinity, worker_stats,
                   worker_queues, lb_running, worker_threads,
                   workers, nStarts, stop_pc, lb_pkt, lane_accepted,
                   lane_handled, lb_ret, nAssign,
                   placed,
                   stop_seen>>
    /\ UNCHANGED otherThanLB

\* _get_affinity_worker: takes the lock; a pinned interface gets its lane
\* and the lock is released, an interface not yet pinned calls
\* _get_least_loaded_worker with the lock still held
GetAffinityWorker(i) ==
    /\ lb_pc[i] = "affinity"
    /\ lb_lock = None
    /\ IF i \in DOMAIN interface_affinity
       THEN /\ lb_worker_id' = [lb_worker_id EXCEPT ![i] =
                                   interface_affinity[i]]
            /\ lb_pc' = [lb_pc EXCEPT ![i] = "put"]
            /\ UNCHANGED lb_lock
       ELSE /\ lb_lock' = i
            /\ lb_pc' = [lb_pc EXCEPT ![i] = "least_loaded"]
            /\ UNCHANGED lb_worker_id
    /\ UNCHANGED <<strategy, rr_counter, interface_affinity, worker_stats,
                   worker_queues, lb_running, worker_threads,
                   workers, nStarts, stop_pc, lb_pkt, lane_accepted,
                   lane_handled, lb_ret, nAssign,
                   placed,
                   stop_seen>>
    /\ UNCHANGED otherThanLB

\* _get_least_loaded_worker: waits for the lock, scans the lanes, releases
\* the lock.  Called from _get_affinity_worker, the caller then pins the
\* interface to the lane and leaves its own "with self.lock".
GetLeastLoadedWorker(i) ==
    /\ lb_pc[i] = "least_loaded"
    /\ lb_lock = None
    /\ LET w == LeastLoaded(worker_stats)
       IN  /\ lb_worker_id' = [lb_worker_id EXCEPT ![i] = w]
           /\ IF strategy = "affinity"
              THEN /\ interface_affinity' = MapPut(interface_affinity, i, w)
                   /\ worker_stats' =
                        [worker_stats EXCEPT ![w].interfaces = Append(@, i)]
              ELSE UNCHANGED <<interface_affinity, worker_stats>>
    /\ lb_pc' = [lb_pc EXCEPT ![i] = "put"]
    /\ UNCHANGED <<strategy, lb_lock, rr_counter, worker_queues, lb_running,
                   worker_threads, workers, nStarts, stop_pc, lb_pkt,
                   lane_accepted, lane_handled, lb_ret, nAssign, placed,
                   stop_seen>>
    /\ UNCHANGED otherThanLB

\* self.worker_queues[worker_id].put_nowait((packet, interface_name))
PutNowait(i) ==
    /\ lb_pc[i] = "put"
    /\ LET w == lb_worker_id[i]
           item == <<lb_pkt[i], i>>
       IN  IF Len(worker_queues[w]) < QueueMaxSize
           THEN /\ worker_queues' =
                     [worker_queues EXCEPT ![w] = Append(@, item)]
                /\ lane_accepted' =
                     [lane_accepted EXCEPT ![w] = Append(@, item)]
                /\ placed' = placed \cup {<<i, w>>}
                /\ lb_ret' = [lb_ret EXCEPT ![i] = TRUE]
           ELSE /\ lb_ret' = [lb_ret EXCEPT ![i] = FALSE]
                /\ UNCHANGED <<worker_queues, lane_accepted, placed>>
    /\ lb_pc' = [lb_pc EXCEPT ![i] = "idle"]
    /\ UNCHANGED <<strategy, lb_lock, rr_counter, interface_affinity,
                   worker_stats, lb_running, worker_threads, workers,
                   nStarts, stop_pc, lb_pkt, lane_handled, lb_worker_id,
                   nAssign,
                   stop_seen>>
    /\ UNCHANGED otherThanLB

\* start_workers: returns at once when the flag is set; otherwise sets the
\* flag and starts one thread per lane, appended to self.workers.  The
\* threads of the n-th start are the threads of generation n.
StartWorkers ==
    /\ stop_pc = "idle"
    /\ nStarts < MaxStarts
    /\ ~lb_running
    /\ lb_running' = TRUE
    /\ nStarts' = nStarts + 1
    /\ worker_threads' =
         [w \in Lanes |-> [worker_threads[w] EXCEPT ![nStarts + 1] = AtLoop]]
    /\ workers' = workers \cup {nStarts + 1}
    /\ UNCHANGED <<strategy, lb_lock, rr_counter, interface_affinity,
                   worker_stats, worker_queues, lb_pc, lb_worker_id, lb_ret,
                   nAssign, placed, lb_pkt, stop_pc, lane_accepted,
                   lane_handled,
                   stop_seen>>
    /\ UNCHANGED otherThanLB

\* stop_workers: returns at once when the flag is clear; otherwise clears
\* the flag and goes on to join the threads of self.workers
StopWorkers ==
    /\ stop_pc = "idle"
    /\ lb_running
    /\ lb_running' = FALSE
    /\ stop_pc' = "join"
    /\ stop_seen' = [w \in Lanes |-> Len(lane_accepted[w])]
    /\ UNCHANGED <<strategy, lb_lock, rr_counter, interface_affinity,
                   worker_stats, worker_queues, worker_threads, workers,
                   nStarts, lb_pc, lb_worker_id, lb_ret, nAssign, placed,
                   lb_pkt, lane_accepted, lane_handled>>
    /\ UNCHANGED otherThanLB

\* thread.join(timeout=5.0) on a thread in the state th: it returns when the
\* thread has ended, and after 5 s when the thread is still inside
\* processor_func.  A thread outside processor_func reaches its loop test
\* within the second its get waits, so the join waits for it.
JoinReturns(th) == th.pc \in {"dead", "processing"}

\* stop_workers, after the flag is cleared: every join has returned,
\* self.workers is cleared and the call returns
StopReturn ==
    /\ stop_pc = "join"
    /\ \A w \in Lanes : \A g \in workers : JoinReturns(worker_threads[w][g])
    /\ workers' = {}
    /\ stop_pc' = "idle"
    /\ UNCHANGED <<strategy, lb_lock, rr_counter, interface_affinity,
                   worker_stats, worker_queues, lb_running, worker_threads,
                   nStarts, lb_pc, lb_worker_id, lb_ret, nAssign, placed,
                   lb_pkt, lane_accepted, lane_handled,
                   stop_seen>>
    /\ UNCHANGED otherThanLB

\* the worker loop, "while self.running" found true and get() returning a
\* frame of the lane's queue (an empty queue makes get raise Empty after 1 s
\* and the loop tests the flag again)
WorkerGet(w, g) ==
    /\ worker_threads[w][g].pc = "loop"
    /\ lb_running
    /\ worker_queues[w] # <<>>
    /\ worker_threads' = [worker_threads EXCEPT ![w][g] =
                             [pc |-> "got", item |-> Head(worker_queues[w])]]
    /\ worker_queues' = [worker_queues EXCEPT ![w] = Tail(@)]
    /\ UNCHANGED <<strategy, lb_lock, rr_counter, interface_affinity,
                   worker_stats, lb_running, workers, nStarts, stop_pc,
                   lb_pc, lb_worker_id, lb_ret, nAssign, placed, lb_pkt,
                   lane_accepted, lane_handled,
                   stop_seen>>
    /\ UNCHANGED otherThanLB

\* the worker calls processor_func(packet, interface_name)
WorkerCall(w, g) ==
    /\ worker_threads[w][g].pc = "got"
    /\ worker_threads' = [worker_threads EXCEPT ![w][g].pc = "processing"]
    /\ lane_handled' = [lane_handled EXCEPT ![w] =
                           Append(@, worker_threads[w][g].item)]
    /\ UNCHANGED <<strategy, lb_lock, rr_counter, interface_affinity,
                   worker_stats, worker_queues, lb_running, workers, nStarts,
                   stop_pc, lb_pc, lb_worker_id, lb_ret, nAssign, placed,
                   lb_pkt, lane_accepted,
                   stop_seen>>
    /\ UNCHANGED otherThanLB

\* processor_func returns or raises: the frame counts as processed or as an
\* error, and the worker is back at its loop test
WorkerProcess(w, g, ok) ==
    /\ worker_threads[w][g].pc = "processing"
    /\ worker_threads' = [worker_threads EXCEPT ![w][g] = AtLoop]
    /\ worker_stats' =
         IF ok THEN [worker_stats EXCEPT ![w].packets_processed = @ + 1]
         ELSE [worker_stats EXCEPT ![w].errors = @ + 1]
    /\ UNCHANGED <<strategy, lb_lock, rr_counter, interface_affinity,
                   worker_queues, lb_running, workers, nStarts, stop_pc,
                   lb_pc, lb_worker_id, lb_ret, nAssign, placed, lb_pkt,
                   lane_accepted, lane_handled,
                   stop_seen>>
    /\ UNCHANGED otherThanLB

\* the worker finds self.running false and leaves its loop
WorkerExit(w, g) ==
    /\ worker_threads[w][g].pc = "loop"
    /\ ~lb_running
    /\ worker_threads' = [worker_threads EXCEPT ![w][g] = NoThread]
    /\ UNCHANGED <<strategy, lb_lock, rr_counter, interface_affinity,
                   worker_stats, worker_queues, lb_running, workers, nStarts,
                   stop_pc, lb_pc, lb_worker_id, lb_ret, nAssign, placed,
                   lb_pkt, lane_accepted, lane_handled,
                   stop_seen>>
    /\ UNCHANGED otherThanLB

(***************************************************************************)
(* ANNDetector  (core/ann_classifier.py)                                   *)
(* The weights of a network are an opaque value: 0 stands for the weights  *)
(* of the checkpoint the detector was built from, every incremental update *)
(* produces the next value.  No method of the detector takes a lock.       *)
(***************************************************************************)
InitDetector ==
    /\ disk_model = 0
    /\ mem_model = 0
    /\ model_mode = "eval"
    /\ pred_pc = "idle"

\* the metrics incremental_update returns: accuracy in percent, loss in
\* tenths, samples the length of the batch it was given
Metrics(acc, loss, n) ==
    [present |-> TRUE, accuracy |-> acc, loss |-> loss, samples |-> n]

\* the empty dict _incremental_train returns when the update raises
EmptyMetrics == [present |-> FALSE, accuracy |-> 0, loss |-> 0, samples |-> 0]

\* DataLoader(dataset, batch_size=32): the size of a mini-batch (32 in the
\* source)
batch_size == 1

\* the number of mini-batches the DataLoader cuts n samples into
NumBatches(n) == (n + batch_size - 1) \div batch_size

\* one run of the training loop: the share of correct predictions in percent
\* and the loss of a mini-batch in tenths, the same for every mini-batch
UpdateRuns == {[accuracy |-> 70, batch_loss |-> 20],
               [accuracy |-> 69, batch_loss |-> 20]}

\* the metrics of incremental_update on n samples: epoch_loss adds up
\* loss.item() over the mini-batches of an epoch, total_loss adds up the
\* epochs, and 'loss' is total_loss / num_epochs
incremental_update(n, run) ==
    Metrics(run.accuracy, NumBatches(n) * run.batch_loss, n)

\* self.model.net[0] is a torch Linear layer and its out_features an int:
\* list() of it raises TypeError
OutFeaturesIsIterable == FALSE

\* ANNDetector.save_checkpoint: the checkpoint dict is built first, and
\* torch.save runs only if building it did not raise
save_checkpoint(mem, disk) ==
    IF OutFeaturesIsIterable
    THEN [raised |-> FALSE, disk |-> mem]
    ELSE [raised |-> TRUE, disk |-> disk]

(***************************************************************************)
(* ContinuousLearner  (core/continuous_learner.py)                         *)
(***************************************************************************)
learning_interval == 3600 * TicksPerSecond

\* minimum number of new alerts, and of labelled samples, of a cycle (100 in
\* the source)
min_samples == 1

learner_max_history == 10000

\* time.sleep(60) of the learning loop
LoopSleep == 60 * TicksPerSecond

\* _validate_model: accuracy below 70 or loss above 2.0 rejects
MinAccuracy == 70

MaxLossTenths == 20

\* _save_state keeps the last 100 history entries and the last 20 versions
SavedHistoryLen == 100

SavedVersionsLen == 20

\* the amount the clock advances by while the learner runs: one hour, which
\* ends a sleep of the loop and makes the learning interval elapse
LearnerTimeSteps == {3600 * TicksPerSecond}

\* number of training cycles begun in one run
MaxCycles == 2

\* number of alerts raised in one run of the learner
MaxLearnerAlerts == 2

\* the modules whose alerts reach the learner's table
LearnerAlertModules == {"DFA", "VENDOR_ANOMALY"}

\* the threads that run _perform_training_cycle: the learning loop and a
\* caller of force_training_cycle
CycleThreads == {"loop", "manual"}

\* from core.continuous_learner import continuous_learner: api.py binds the
\* value the name has at import time, and initialize_continuous_learner
\* rebinds only the name of core.continuous_learner
api_continuous_learner == None

\* an optional number: <<>> stands for Python's None, <<x>> for the value x
Nothing == <<>>

Some(x) == <<x>>

IdleCycle == [pc |-> "idle", n |-> 0, max_id |-> 0, backup_path |-> Nothing,
              metrics |-> EmptyMetrics, start |-> 0, outcome |-> None,
              pre_disk |-> 0, pre_lpid |-> 0, hist_len |-> 0,
              ver_len |-> 0, committed |-> Nothing,
              commit_time |-> Nothing]

InitLearner ==
    /\ is_training = FALSE
    /\ should_stop = FALSE
    /\ last_training_time = Nothing
    /\ last_processed_id = 0
    /\ training_history = <<>>
    /\ model_versions = <<>>
    /\ stats_file = None
    /\ backups = [p \in {} |-> 0]
    /\ loop_pc = "not_started"
    /\ wake_at = 0
    /\ cyc = [t \in CycleThreads |-> IdleCycle]
    /\ train_now = None
    /\ nCycles = 0

\* the last k elements of a list: s[-k:]
LastK(s, k) == IF Len(s) <= k THEN s ELSE SubSeq(s, Len(s) - k + 1, Len(s))

\* the first k elements of a list: limit(k)
FirstK(s, k) == IF Len(s) <= k THEN s ELSE SubSeq(s, 1, k)

\* the rows with id > lpid, in id order
NewAlerts(rows, lpid) == SelectSeq(rows, LAMBDA r : r.id > lpid)

\* A reason is parsed as a sequence of words.  ReasonWords are the words of
\* the reasons the labeller is tried on: a word of prose, the marker, a
\* closing parenthesis and numerals around the two thresholds
ReasonWords == {"Suspicious", "confidence:", ")", "0.95", "0.94", "0.31",
                "0.30"}

\* float(): the value of a numeral in hundredths; any other text raises
\* ValueError
Float == [w \in {"0.95", "0.94", "0.31", "0.30"} |->
             CASE w = "0.95" -> 95 [] w = "0.94" -> 94
               [] w = "0.31" -> 31 [] w = "0.30" -> 30]

\* the position of the first occurrence of word w in s, 0 when there is none
FirstIndexOf(s, w) ==
    IF \E i \in 1..Len(s) : s[i] = w
    THEN CHOOSE i \in 1..Len(s) :
            s[i] = w /\ \A j \in 1..(i - 1) : s[j] # w
    ELSE 0

\* the position of the last occurrence of word w in s, 0 when there is none
LastIndexOf(s, w) ==
    IF \E i \in 1..Len(s) : s[i] = w
    THEN CHOOSE i \in 1..Len(s) :
            s[i] = w /\ \A j \in (i + 1)..Len(s) : s[j] # w
    ELSE 0

\* rstrip(")"): s without its trailing closing parentheses
RECURSIVE RStripParen(_)
RStripParen(s) ==
    IF s # <<>> /\ s[Len(s)] = ")"
    THEN RStripParen(SubSeq(s, 1, Len(s) - 1))
    ELSE s

\* reason.split("confidence:")[-1].strip().rstrip(")"): the words after the
\* last marker, without trailing parentheses
ConfStr(reason) ==
    RStripParen(SubSeq(reason, LastIndexOf(reason, "confidence:") + 1,
                       Len(reason)))

\* float(conf_str): the confidence in hundredths, or Nothing when float
\* raises (the text is empty, or more than a numeral)
ParseConfidence(reason) ==
    LET c == ConfStr(reason)
    IN  IF Len(c) = 1 /\ c[1] \in DOMAIN Float THEN Some(Float[c[1]])
        ELSE Nothing

\* "confidence:" in alert.reason
HasMarker(reason) == \E i \in 1..Len(reason) : reason[i] = "confidence:"

\* _auto_label_alert: DFA alerts are attacks; an ANN alert is labelled by
\* the confidence parsed from its reason, and is an attack when the reason
\* has no marker or the parse raises; alerts of any other module are
\* skipped.  <<1>> and <<0>> are the labels, <<>> stands for the None of a
\* skipped alert
_auto_label_alert(a) ==
    IF a.module = "DFA" THEN <<1>>
    ELSE IF a.module = "ANN"
    THEN IF HasMarker(a.reason)
         THEN LET c == ParseConfidence(a.reason)
              IN  IF c = Nothing THEN <<1>>
                  ELSE IF c[1] >= 95 THEN <<1>>
                  ELSE IF c[1] <= 30 THEN <<0>>
                  ELSE <<>>
         ELSE <<1>>
    ELSE <<>>

\* _collect_training_data: the labelled samples among the new alerts
Labelled(rows, lpid) ==
    SelectSeq(FirstK(NewAlerts(rows, lpid), learner_max_history),
              LAMBDA r : _auto_label_alert(r) # <<>>)

RECURSIVE MaxId(_)
MaxId(s) == IF s = <<>> THEN 0
            ELSE LET m == MaxId(Tail(s))
                 IN  IF Head(s).id > m THEN Head(s).id ELSE m

\* _validate_model
_validate_model(m) ==
    IF ~m.present THEN FALSE
    ELSE IF m.accuracy < MinAccuracy THEN FALSE
    ELSE IF m.loss > MaxLossTenths THEN FALSE
    ELSE TRUE

\* _backup_current_model copies the model file, not the network in memory
BackupContent_Mem(disk, mem) == mem

BackupContent(disk, mem) == disk

\* the second-resolution timestamp that names a backup file
BackupPath(t) == t \div TicksPerSecond

\* _save_state: what is written to the stats file
SavedState(lpid, ltt, hist, vers) ==
    [last_processed_id |-> lpid,
     last_training_time |-> ltt,
     training_history |-> LastK(hist, SavedHistoryLen),
     model_versions |-> LastK(vers, SavedVersionsLen)]

notLearner == <<dfaVars, analyzerVars, handlerVars, lbVars, serviceVars>>

\* AlertSystem.alert stores an alert of module m while the learner runs
AlertRaised(m) ==
    /\ Len(alerts) < MaxLearnerAlerts
    /\ alerts' = generate_alert(alerts, next_alert_id,
                                [module |-> m, reason |-> m,
                                 src_ip |-> "10.0.0.1",
                                 src_mac |-> "aa:bb:cc:11:22:33"], TRUE)
    /\ next_alert_id' = next_alert_id + 1
    /\ UNCHANGED <<clockVars, notLearner, learnerVars>>

\* ANNDetector.predict, called by the sniffer thread: the forward pass
\* begins
PredictBegin ==
    /\ pred_pc = "idle"
    /\ pred_pc' = "forward"
    /\ UNCHANGED <<is_training, should_stop, last_training_time,
                   last_processed_id, training_history, model_versions,
                   stats_file, disk_model, mem_model, model_mode, backups,
                   loop_pc, wake_at, cyc, train_now, nCycles>>
    /\ UNCHANGED <<clockVars, alertVars, notLearner>>

\* ANNDetector.predict returns
PredictEnd ==
    /\ pred_pc = "forward"
    /\ pred_pc' = "idle"
    /\ UNCHANGED <<is_training, should_stop, last_training_time,
                   last_processed_id, training_history, model_versions,
                   stats_file, disk_model, mem_model, model_mode, backups,
                   loop_pc, wake_at, cyc, train_now, nCycles>>
    /\ UNCHANGED <<clockVars, alertVars, notLearner>>

\* what the learner's control calls leave alone outside the learner
notLife == <<dfaVars, analyzerVars, handlerVars, lbVars, labelerVars,
             storeVars, hubVars, managerVars, intelVars, mitigationVars,
             bufferVars, fanoutVars, ifaceVars, putVars, restartVars>>

\* training_thread.join(timeout=10)
JoinTimeout == 10 * TicksPerSecond

\* training_thread and training_thread.is_alive()
LoopAlive == loop_pc \notin {"not_started", "dead"}

\* start_continuous_learning: it returns at once while the loop thread is
\* alive, else clears should_stop and starts a thread
StartContinuousLearning ==
    /\ stopper_pc = "idle"
    /\ IF LoopAlive
       THEN UNCHANGED <<should_stop, loop_pc>>
       ELSE should_stop' = FALSE /\ loop_pc' = "while"
    /\ last_control' = "start"
    /\ UNCHANGED <<is_training, last_training_time, last_processed_id,
                   training_history, model_versions, stats_file, disk_model,
                   mem_model, model_mode, backups, wake_at, cyc, pred_pc,
                   train_now, nCycles>>
    /\ UNCHANGED <<stopper_pc, join_until>>
    /\ UNCHANGED <<clockVars, alertVars, notLife>>

\* stop_continuous_learning sets should_stop and, when there is a thread,
\* joins it for at most ten seconds
StopContinuousLearning ==
    /\ stopper_pc = "idle"
    /\ should_stop' = TRUE
    /\ IF loop_pc = "not_started"
       THEN /\ last_control' = "stop"
            /\ UNCHANGED <<stopper_pc, join_until>>
       ELSE /\ stopper_pc' = "join"
            /\ join_until' = now + JoinTimeout
            /\ UNCHANGED last_control
    /\ UNCHANGED <<is_training, last_training_time, last_processed_id,
                   training_history, model_versions, stats_file, disk_model,
                   mem_model, model_mode, backups, loop_pc, wake_at, cyc,
                   pred_pc, train_now, nCycles>>
    /\ UNCHANGED <<clockVars, alertVars, notLife>>

\* the join returns: the thread has ended or the timeout has passed
StopReturn_Learner ==
    /\ stopper_pc = "join"
    /\ loop_pc = "dead" \/ now >= join_until
    /\ stopper_pc' = "idle"
    /\ join_until' = 0
    /\ last_control' = "stop"
    /\ UNCHANGED learnerVars
    /\ UNCHANGED <<clockVars, alertVars, notLife>>

\* _learning_loop: while not self.should_stop
LoopTest ==
    /\ loop_pc = "while"
    /\ loop_pc' = IF should_stop THEN "dead" ELSE "check_time"
    /\ UNCHANGED <<is_training, should_stop, last_training_time,
                   last_processed_id, training_history, model_versions,
                   stats_file, disk_model, mem_model, model_mode, backups,
                   wake_at, cyc, pred_pc, train_now, nCycles>>
    /\ UNCHANGED <<clockVars, alertVars, notLearner>>

\* _should_train, first half: the time since the last training
ShouldTrainTime ==
    /\ loop_pc = "check_time"
    /\ IF /\ last_training_time # Nothing
          /\ now - last_training_time[1] < learning_interval
       THEN loop_pc' = "sleep" /\ wake_at' = now + LoopSleep
       ELSE loop_pc' = "check_count" /\ wake_at' = wake_at
    /\ UNCHANGED <<is_training, should_stop, last_training_time,
                   last_processed_id, training_history, model_versions,
                   stats_file, disk_model, mem_model, model_mode, backups,
                   cyc, pred_pc, train_now, nCycles>>
    /\ UNCHANGED <<clockVars, alertVars, notLearner>>

\* _perform_training_cycle begins in thread t: is_training is set without
\* being tested, then comes step 1, _collect_training_data and the test of
\* the number of labelled samples
BeginCycle(t) ==
    /\ nCycles < MaxCycles
    /\ is_training' = TRUE
    /\ LET X == Labelled(alerts, last_processed_id)
           c == [IdleCycle EXCEPT !.start = now,
                                  !.pre_disk = disk_model,
                                  !.pre_lpid = last_processed_id,
                                  !.hist_len = Len(training_history),
                                  !.ver_len = Len(model_versions)]
       IN  cyc' = [cyc EXCEPT ![t] =
                      IF Len(X) < min_samples
                      THEN [c EXCEPT !.pc = "finally",
                                     !.outcome = "insufficient"]
                      ELSE [c EXCEPT !.pc = "backup", !.n = Len(X),
                                     !.max_id = MaxId(X)]]
    /\ nCycles' = nCycles + 1

\* _should_train, second half: the count of new alerts; when it suffices the
\* loop enters _perform_training_cycle
ShouldTrainCount ==
    /\ loop_pc = "check_count"
    /\ IF Len(NewAlerts(alerts, last_processed_id)) < min_samples
       THEN /\ loop_pc' = "sleep" /\ wake_at' = now + LoopSleep
            /\ UNCHANGED <<is_training, cyc, nCycles>>
       ELSE /\ loop_pc' = "cycle" /\ wake_at' = wake_at
            /\ BeginCycle("loop")
    /\ UNCHANGED <<should_stop, last_training_time, last_processed_id,
                   training_history, model_versions, stats_file, disk_model,
                   mem_model, model_mode, backups, pred_pc, train_now>>
    /\ UNCHANGED <<clockVars, alertVars, notLearner>>

\* time.sleep of the learning loop returns
LoopWake ==
    /\ loop_pc = "sleep"
    /\ now >= wake_at
    /\ loop_pc' = "while"
    /\ wake_at' = 0
    /\ UNCHANGED <<is_training, should_stop, last_training_time,
                   last_processed_id, training_history, model_versions,
                   stats_file, disk_model, mem_model, model_mode, backups,
                   cyc, pred_pc, train_now, nCycles>>
    /\ UNCHANGED <<clockVars, alertVars, notLearner>>

\* force_training_cycle is called: it enters _perform_training_cycle
\* whatever is_training says
ForceTrainingCycle ==
    /\ cyc["manual"].pc = "idle"
    /\ BeginCycle("manual")
    /\ UNCHANGED <<should_stop, last_training_time, last_processed_id,
                   training_history, model_versions, stats_file, disk_model,
                   mem_model, model_mode, backups, loop_pc, wake_at, pred_pc,
                   train_now>>
    /\ UNCHANGED <<clockVars, alertVars, notLearner>>

\* POST /learning/train-now: 503 when api.py's continuous_learner is None,
\* 409 when is_training, else a thread is started on force_training_cycle
trigger_training ==
    /\ IF api_continuous_learner = None
       THEN /\ train_now' = "503"
            /\ UNCHANGED <<is_training, cyc, nCycles>>
       ELSE IF is_training
       THEN /\ train_now' = "409"
            /\ UNCHANGED <<is_training, cyc, nCycles>>
       ELSE /\ train_now' = "200"
            /\ cyc["manual"].pc = "idle"
            /\ BeginCycle("manual")
    /\ UNCHANGED <<should_stop, last_training_time, last_processed_id,
                   training_history, model_versions, stats_file, disk_model,
                   mem_model, model_mode, backups, loop_pc, wake_at, pred_pc>>
    /\ UNCHANGED <<clockVars, alertVars, notLearner>>

\* step 2: _backup_current_model copies the model file to a path named by
\* the current second
BackupCurrentModel(t) ==
    /\ cyc[t].pc = "backup"
    /\ backups' = [p \in DOMAIN backups \cup {BackupPath(now)} |->
                      IF p = BackupPath(now)
                      THEN BackupContent(disk_model, mem_model)
                      ELSE backups[p]]
    /\ cyc' = [cyc EXCEPT ![t].pc = "train",
                          ![t].backup_path = Some(BackupPath(now))]
    /\ UNCHANGED <<is_training, should_stop, last_training_time,
                   last_processed_id, training_history, model_versions,
                   stats_file, disk_model, mem_model, model_mode,
                   loop_pc, wake_at, pred_pc, train_now, nCycles>>
    /\ UNCHANGED <<clockVars, alertVars, notLearner>>

\* step 3: _incremental_train enters ANNDetector.incremental_update, which
\* puts the network in training mode
IncrementalUpdateBegin(t) ==
    /\ cyc[t].pc = "train"
    /\ model_mode' = "train"
    /\ cyc' = [cyc EXCEPT ![t].pc = "training"]
    /\ UNCHANGED <<is_training, should_stop, last_training_time,
                   last_processed_id, training_history, model_versions,
                   stats_file, disk_model, mem_model, backups,
                   loop_pc, wake_at, pred_pc, train_now, nCycles>>
    /\ UNCHANGED <<clockVars, alertVars, notLearner>>

\* incremental_update ends: it has moved the weights and either returns
\* metrics m after model.eval(), or raises, and _incremental_train returns
\* the empty dict
IncrementalUpdateEnd(t, m) ==
    /\ cyc[t].pc = "training"
    /\ mem_model' = mem_model + 1
    /\ model_mode' = IF m.present THEN "eval" ELSE model_mode
    /\ cyc' = [cyc EXCEPT ![t].pc = "validate", ![t].metrics = m]
    /\ UNCHANGED <<is_training, should_stop, last_training_time,
                   last_processed_id, training_history, model_versions,
                   stats_file, disk_model, backups,
                   loop_pc, wake_at, pred_pc, train_now, nCycles>>
    /\ UNCHANGED <<clockVars, alertVars, notLearner>>

\* step 4: _validate_model, then _save_model_version (the version entry is
\* appended only if save_checkpoint did not raise) or _rollback_model (the
\* backup file, if there is one, is copied over the model file)
ValidateModel(t) ==
    /\ cyc[t].pc = "validate"
    /\ IF _validate_model(cyc[t].metrics)
       THEN LET r == save_checkpoint(mem_model, disk_model)
            IN  /\ disk_model' = r.disk
                /\ model_versions' =
                      IF r.raised THEN model_versions
                      ELSE Append(model_versions,
                                  [timestamp |-> now,
                                   metrics |-> cyc[t].metrics])
                /\ cyc' = [cyc EXCEPT ![t].pc = "update",
                                      ![t].outcome = "accepted",
                                      ![t].committed = Some(mem_model)]
       ELSE /\ model_versions' = model_versions
            /\ IF /\ cyc[t].backup_path # Nothing
                  /\ cyc[t].backup_path[1] \in DOMAIN backups
               THEN /\ disk_model' = backups[cyc[t].backup_path[1]]
                    /\ cyc' = [cyc EXCEPT ![t].pc = "reload",
                                          ![t].outcome = "rejected"]
               ELSE /\ disk_model' = disk_model
                    /\ cyc' = [cyc EXCEPT ![t].pc = "update",
                                          ![t].outcome = "rejected"]
    /\ UNCHANGED <<is_training, should_stop, last_training_time,
                   last_processed_id, training_history, stats_file,
                   mem_model, model_mode, backups,
                   loop_pc, wake_at, pred_pc, train_now, nCycles>>
    /\ UNCHANGED <<clockVars, alertVars, notLearner>>

\* ANNDetector.reload_model, called by _rollback_model after the copy
ReloadModel(t) ==
    /\ cyc[t].pc = "reload"
    /\ mem_model' = disk_model
    /\ model_mode' = "eval"
    /\ cyc' = [cyc EXCEPT ![t].pc = "update"]
    /\ UNCHANGED <<is_training, should_stop, last_training_time,
                   last_processed_id, training_history, model_versions,
                   stats_file, disk_model, backups,
                   loop_pc, wake_at, pred_pc, train_now, nCycles>>
    /\ UNCHANGED <<clockVars, alertVars, notLearner>>

\* steps 5 and 6, whatever the validation said: last_processed_id and
\* last_training_time are updated, the metrics recorded, the state saved
UpdateState(t) ==
    /\ cyc[t].pc = "update"
    /\ last_processed_id' = IF cyc[t].n > 0 THEN cyc[t].max_id
                            ELSE last_processed_id
    /\ last_training_time' = Some(now)
    /\ training_history' =
          Append(training_history,
                 [timestamp |-> now, training_time |-> now - cyc[t].start,
                  num_samples |-> cyc[t].n, metrics |-> cyc[t].metrics])
    /\ stats_file' = SavedState(last_processed_id', last_training_time',
                                training_history', model_versions)
    /\ cyc' = [cyc EXCEPT ![t].pc = "finally", ![t].commit_time = Some(now)]
    /\ UNCHANGED <<is_training, should_stop, model_versions, disk_model,
                   mem_model, model_mode, backups,
                   loop_pc, wake_at, pred_pc, train_now, nCycles>>
    /\ UNCHANGED <<clockVars, alertVars, notLearner>>

\* finally: is_training = False; the loop thread goes on to time.sleep(60)
FinishCycle(t) ==
    /\ cyc[t].pc = "finally"
    /\ is_training' = FALSE
    /\ cyc' = [cyc EXCEPT ![t] = IdleCycle]
    /\ IF t = "loop"
       THEN loop_pc' = "sleep" /\ wake_at' = now + LoopSleep
       ELSE UNCHANGED <<loop_pc, wake_at>>
    /\ UNCHANGED <<should_stop, last_training_time, last_processed_id,
                   training_history, model_versions, stats_file, disk_model,
                   mem_model, model_mode, backups, pred_pc, train_now,
                   nCycles>>
    /\ UNCHANGED <<clockVars, alertVars, notLearner>>

(***************************************************************************)
(* A restart of the process: ContinuousLearner.__init__ sets the defaults  *)
(* and calls _load_state; ANNDetector loads the model file.                *)
(***************************************************************************)
\* number of restarts in one run
MaxRestarts == 1

\* the stats file exists once a cycle has saved the state, and every cycle
\* that saves the state has appended to the history
StatsFileExists == training_history # <<>>

\* _load_state: the attributes it sets from the file, the others keep the
\* value __init__ gave them
_load_state(file) ==
    [last_processed_id |-> file.last_processed_id,
     last_training_time |-> Nothing,
     training_history |-> file.training_history,
     model_versions |-> file.model_versions]

notRestart == <<dfaVars, analyzerVars, handlerVars, lbVars, labelerVars,
                storeVars, hubVars, managerVars, intelVars, mitigationVars,
                bufferVars, fanoutVars, ifaceVars, putVars>>

\* the process is restarted between two cycles
Restart ==
    /\ nRestarts < MaxRestarts
    /\ \A t \in CycleThreads : cyc[t].pc = "idle"
    /\ pred_pc = "idle"
    /\ stopper_pc = "idle"
    /\ LET st == IF StatsFileExists THEN _load_state(stats_file)
                 ELSE [last_processed_id |-> 0,
                       last_training_time |-> Nothing,
                       training_history |-> <<>>, model_versions |-> <<>>]
       IN  /\ last_processed_id' = st.last_processed_id
           /\ last_training_time' = st.last_training_time
           /\ training_history' = st.training_history
           /\ model_versions' = st.model_versions
    /\ is_training' = FALSE
    /\ should_stop' = FALSE
    /\ loop_pc' = "not_started"
    /\ wake_at' = 0
    /\ mem_model' = disk_model
    /\ model_mode' = "eval"
    /\ train_now' = None
    /\ last_control' = None
    /\ nRestarts' = nRestarts + 1
    /\ UNCHANGED <<stats_file, disk_model, backups, cyc, pred_pc, nCycles>>
    /\ UNCHANGED <<stopper_pc, join_until>>
    /\ UNCHANGED <<clockVars, alertVars, notRestart>>

(***************************************************************************)
(* The auto-labeller on its own: _auto_label_alert applied to one alert,   *)
(* and what _collect_training_data makes of the label                      *)
(***************************************************************************)
\* the longest reason tried, in words
MaxReasonLen == 3

Reasons == UNION {[1..n -> ReasonWords] : n \in 0..MaxReasonLen}

AlertModules == {"DFA", "ANN", "ARP_ANOMALY", "VENDOR_ANOMALY"}

InitLabeler ==
    /\ lab_alert = NoAlert
    /\ lab_label = <<>>
    /\ lab_samples = 0

\* _collect_training_data over a table that holds one new alert of module m
\* and reason r: the label of the alert and the number of samples collected.
\* The table is read once: the alert is new to one collection only
AutoLabelAlert(m, r) ==
    LET row == [id |-> 1, module |-> m, reason |-> r,
                src_ip |-> "10.0.0.1", src_mac |-> "aa:bb:cc:11:22:33"]
    IN  /\ lab_alert.module = None
        /\ lab_alert' = [module |-> m, reason |-> r, src_ip |-> row.src_ip,
                         src_mac |-> row.src_mac]
        /\ lab_label' = _auto_label_alert(row)
        /\ lab_samples' = Len(Labelled(<<row>>, 0))
        /\ UNCHANGED <<clockVars, snifferVars, lbVars, learnerVars, storeVars,
                       hubVars, controlVars>>

(***************************************************************************)
(* ConnectionManager  (core/websocket_manager.py)                          *)
(* generate_alert runs manager.broadcast to its end with asyncio.run, in   *)
(* the thread that raised the alert.  send_text completes once the         *)
(* transport has taken the message; when the subscriber does not read and  *)
(* the transport's buffer is full it waits for the subscriber.             *)
(***************************************************************************)
Subscribers == {"ws1", "ws2"}

\* the threads that call generate_alert at the same time: two workers of the
\* multi-interface sniffer
Producers == {"worker0", "worker1"}

\* the number of events the transport of one connection buffers
SendBufferEvents == 1

IdleBroadcast == [pc |-> "idle", msg |-> 0, conns |-> <<>>, i |-> 0,
                  disconnected |-> <<>>]

InitHub ==
    /\ active_connections = <<>>
    /\ ws_closed = [s \in Subscribers |-> FALSE]
    /\ sockbuf = [s \in Subscribers |-> <<>>]
    /\ received = [s \in Subscribers |-> <<>>]
    /\ bc = IdleBroadcast

\* s without the elements equal to x
SeqRemove(s, x) == SelectSeq(s, LAMBDA y : y # x)

InSeq(s, x) == \E i \in 1..Len(s) : s[i] = x

\* broadcast(message) up to its first send: it returns at once when there
\* are no connections, else takes the lock and copies the list
broadcast(msg, conns) ==
    IF conns = <<>> THEN IdleBroadcast
    ELSE [pc |-> "sending", msg |-> msg, conns |-> conns, i |-> 1,
          disconnected |-> <<>>]

\* the connection the broadcast is about to send to
Target == bc.conns[bc.i]

\* send_text cannot complete: the subscriber's socket is open and its
\* buffer full
SendWaits ==
    /\ bc.pc = "sending"
    /\ bc.i <= Len(bc.conns)
    /\ ~ws_closed[Target]
    /\ Len(sockbuf[Target]) >= SendBufferEvents

\* websocket_endpoint: manager.connect accepts the socket and appends it
\* under the lock, which a running broadcast holds
Connect(s) ==
    /\ bc.pc = "idle"
    /\ \A p \in Producers : pub[p].pc = "idle"
    /\ ~InSeq(active_connections, s)
    /\ ~ws_closed[s]
    /\ active_connections' = Append(active_connections, s)
    /\ UNCHANGED <<ws_closed, sockbuf, received, bc>>
    /\ UNCHANGED <<clockVars, snifferVars, lbVars, learnerVars, labelerVars,
                   storeVars, controlVars>>

\* a subscriber that puts what it reads in front of what it has read
SubscriberRead_Reversed(s) ==
    /\ sockbuf[s] # <<>>
    /\ received' = [received EXCEPT ![s] = <<Head(sockbuf[s])>> \o @]
    /\ sockbuf' = [sockbuf EXCEPT ![s] = Tail(@)]
    /\ UNCHANGED <<active_connections, ws_closed, bc>>
    /\ UNCHANGED <<clockVars, snifferVars, lbVars, learnerVars, labelerVars,
                   storeVars, controlVars>>

\* the subscriber reads one event from its socket
SubscriberRead(s) ==
    /\ sockbuf[s] # <<>>
    /\ received' = [received EXCEPT ![s] = Append(@, Head(sockbuf[s]))]
    /\ sockbuf' = [sockbuf EXCEPT ![s] = Tail(@)]
    /\ UNCHANGED <<active_connections, ws_closed, bc>>
    /\ UNCHANGED <<clockVars, snifferVars, lbVars, learnerVars, labelerVars,
                   storeVars, controlVars>>

\* the subscriber closes its socket; the connection stays registered until
\* the endpoint learns of it
SubscriberClose(s) ==
    /\ InSeq(active_connections, s)
    /\ ~ws_closed[s]
    /\ ws_closed' = [ws_closed EXCEPT ![s] = TRUE]
    /\ UNCHANGED <<active_connections, sockbuf, received, bc>>
    /\ UNCHANGED <<clockVars, snifferVars, lbVars, learnerVars, labelerVars,
                   storeVars, controlVars>>

\* websocket_endpoint: receive_text raises WebSocketDisconnect and the
\* endpoint calls manager.disconnect, which takes no lock
EndpointDisconnect(s) ==
    /\ ws_closed[s]
    /\ InSeq(active_connections, s)
    /\ active_connections' = SeqRemove(active_connections, s)
    /\ UNCHANGED <<ws_closed, sockbuf, received, bc>>
    /\ UNCHANGED <<clockVars, snifferVars, lbVars, learnerVars, labelerVars,
                   storeVars, controlVars>>

\* broadcast without its try: the error of send_text ends the loop
BroadcastSend_Raises ==
    /\ bc.pc = "sending"
    /\ bc.i <= Len(bc.conns)
    /\ ~SendWaits
    /\ IF ws_closed[Target]
       THEN /\ bc' = IdleBroadcast
            /\ sockbuf' = sockbuf
       ELSE /\ bc' = [bc EXCEPT !.i = @ + 1]
            /\ sockbuf' = [sockbuf EXCEPT ![Target] = Append(@, bc.msg)]
    /\ UNCHANGED <<active_connections, ws_closed, received>>
    /\ UNCHANGED <<clockVars, snifferVars, lbVars, learnerVars, labelerVars,
                   storeVars, controlVars>>

\* one turn of the loop of broadcast: send_text to the next connection of
\* the copy; a closed socket raises and the connection is noted
BroadcastSend ==
    /\ bc.pc = "sending"
    /\ bc.i <= Len(bc.conns)
    /\ ~SendWaits
    /\ IF ws_closed[Target]
       THEN /\ bc' = [bc EXCEPT !.i = @ + 1,
                                !.disconnected = Append(@, Target)]
            /\ sockbuf' = sockbuf
       ELSE /\ bc' = [bc EXCEPT !.i = @ + 1]
            /\ sockbuf' = [sockbuf EXCEPT ![Target] = Append(@, bc.msg)]
    /\ UNCHANGED <<active_connections, ws_closed, received>>
    /\ UNCHANGED <<clockVars, snifferVars, lbVars, learnerVars, labelerVars,
                   storeVars, controlVars>>

RECURSIVE RemoveAll(_, _)
RemoveAll(s, xs) ==
    IF xs = <<>> THEN s ELSE RemoveAll(SeqRemove(s, Head(xs)), Tail(xs))

\* the loop is over: the lock is released, the noted connections are
\* disconnected and generate_alert returns
BroadcastEnd ==
    /\ bc.pc = "sending"
    /\ bc.i > Len(bc.conns)
    /\ active_connections' = RemoveAll(active_connections, bc.disconnected)
    /\ bc' = IdleBroadcast
    /\ UNCHANGED <<ws_closed, sockbuf, received>>
    /\ UNCHANGED <<clockVars, snifferVars, lbVars, learnerVars, labelerVars,
                   storeVars, controlVars>>

(***************************************************************************)
(* generate_alert called from several threads.  Each call runs             *)
(* manager.broadcast with asyncio.run, in an event loop of its own in the  *)
(* calling thread.  manager._lock is an asyncio.Lock: it is not            *)
(* thread-safe, so the model does not rely on it to keep the broadcasts of *)
(* two threads apart and admits every interleaving of their sends, those   *)
(* in which the lock holds included.                                       *)
(***************************************************************************)
\* number of alerts the producer threads raise in one run
MaxPublished == 3

InitFanout ==
    /\ pub = [p \in Producers |-> IdleBroadcast]
    /\ pub_done = {}
    /\ pub_before = {}
    /\ nPublished = 0

hubLeft == <<clockVars, snifferVars, lbVars, learnerVars, labelerVars,
             storeVars, managerVars, intelVars, mitigationVars, bufferVars,
             lifeVars, ifaceVars, putVars, restartVars>>

\* generate_alert in thread p: the row is committed, its id is the next
\* one, and broadcast copies the list of connections
Publish(p) ==
    /\ nPublished < MaxPublished
    /\ pub[p].pc = "idle"
    /\ pub' = [pub EXCEPT ![p] = broadcast(nPublished + 1, active_connections)]
    /\ pub_before' = pub_before \cup {<<a, nPublished + 1>> : a \in pub_done}
    /\ pub_done' = IF active_connections = <<>>
                   THEN pub_done \cup {nPublished + 1}
                   ELSE pub_done
    /\ nPublished' = nPublished + 1
    /\ UNCHANGED <<hubVars, hubLeft>>

\* one turn of the loop of the broadcast of thread p
PublishSend(p) ==
    LET b == pub[p]
        target == b.conns[b.i]
    IN  /\ b.pc = "sending"
        /\ b.i <= Len(b.conns)
        /\ IF ws_closed[target]
           THEN /\ pub' = [pub EXCEPT ![p].i = @ + 1,
                                      ![p].disconnected = Append(@, target)]
                /\ sockbuf' = sockbuf
           ELSE /\ Len(sockbuf[target]) < SendBufferEvents
                /\ pub' = [pub EXCEPT ![p].i = @ + 1]
                /\ sockbuf' = [sockbuf EXCEPT ![target] = Append(@, b.msg)]
        /\ UNCHANGED <<active_connections, ws_closed, received, bc>>
        /\ UNCHANGED <<pub_done, pub_before, nPublished>>
        /\ UNCHANGED hubLeft

\* the broadcast of thread p returns
PublishEnd(p) ==
    /\ pub[p].pc = "sending"
    /\ pub[p].i > Len(pub[p].conns)
    /\ active_connections' =
          RemoveAll(active_connections, pub[p].disconnected)
    /\ pub' = [pub EXCEPT ![p] = IdleBroadcast]
    /\ pub_done' = pub_done \cup {pub[p].msg}
    /\ UNCHANGED <<ws_closed, sockbuf, received, bc>>
    /\ UNCHANGED <<pub_before, nPublished>>
    /\ UNCHANGED hubLeft

(***************************************************************************)
(* The alert store: AlertSystem.generate_alert  (core/alert_system.py)     *)
(* and AlertManager  (core/alert_manager.py).                              *)
(* Each call of archive_alerts is one session: its query reads the table   *)
(* as committed, its inserts and deletes reach the database at commit.     *)
(***************************************************************************)
\* config/settings.py: DATABASE_URL from the environment (SQLite), or the
\* PostgreSQL URL built from the DB_ settings
Dialects == {"postgresql", "sqlite"}

\* number of generate_alert calls in one run
MaxInserts == 3

\* number of archive_alerts and auto_rotate_old_alerts calls in one run
MaxArchives == 2

\* the threads of the API that run the archive and rotate endpoints
ArchiveThreads == {"api1", "api2"}

AlertIds == 1..MaxInserts

\* the alert_ids argument: <<>> stands for None, <<ids>> for a list of ids
IdleArchive == [pc |-> "idle", ids |-> <<>>, rows |-> <<>>, reason |-> None]

\* if alert_ids: None and the empty list are both false
HasIds(alert_ids) == alert_ids # <<>> /\ alert_ids[1] # {}

InitStore ==
    /\ dialect = "postgresql"
    /\ archived_alerts = <<>>
    /\ arch = [t \in ArchiveThreads |-> IdleArchive]
    /\ committed_rows = <<>>
    /\ insert_ret = None
    /\ nInserts = 0
    /\ nArchives = 0

\* id = Column(Integer, primary_key=True, autoincrement=True): PostgreSQL
\* draws the id from the sequence of the column; SQLite, for which the
\* column is rendered without AUTOINCREMENT, gives the largest id in the
\* table plus one
NextId(d, rows, serial) ==
    IF d = "sqlite" THEN MaxId(rows) + 1 ELSE serial

\* generate_alert reaches manager.broadcast only after session.commit()
\* has returned, and only if asyncio.run does not raise
Published_Always(db_ok, pub_ok) == pub_ok

Published(db_ok, pub_ok) == db_ok /\ pub_ok

\* the application starts with DATABASE_URL set
SetDatabaseUrl(d) ==
    /\ d # dialect
    /\ dialect = "postgresql"
    /\ nInserts = 0 /\ nArchives = 0
    /\ dialect' = d
    /\ UNCHANGED <<archived_alerts, arch, committed_rows, insert_ret,
                   nInserts, nArchives>>
    /\ UNCHANGED <<clockVars, snifferVars, lbVars, learnerVars, labelerVars,
                   hubVars, controlVars>>

\* AlertSystem.generate_alert called by a detector thread: the row is
\* committed, then the event is broadcast; any exception is logged and
\* followed by a rollback, which undoes nothing once the commit is done.
\* The reason of the n-th call is n
InsertAlert(m, db_ok, pub_ok) ==
    /\ nInserts < MaxInserts
    /\ bc.pc = "idle"
    /\ LET id == NextId(dialect, alerts, next_alert_id)
           a == [module |-> m, reason |-> nInserts + 1,
                 src_ip |-> "10.0.0.1", src_mac |-> "aa:bb:cc:11:22:33"]
           rows == generate_alert(alerts, id, a, db_ok)
       IN  /\ alerts' = rows
           /\ next_alert_id' = IF db_ok THEN id + 1 ELSE next_alert_id
           /\ committed_rows' = IF db_ok
                                THEN Append(committed_rows, rows[Len(rows)])
                                ELSE committed_rows
           /\ bc' = IF Published(db_ok, pub_ok)
                    THEN broadcast(id, active_connections)
                    ELSE IdleBroadcast
    /\ insert_ret' = IF ~db_ok THEN "db_error"
                     ELSE IF ~pub_ok THEN "publish_error"
                     ELSE "stored"
    /\ nInserts' = nInserts + 1
    /\ UNCHANGED <<dialect, archived_alerts, arch, nArchives>>
    /\ UNCHANGED <<active_connections, ws_closed, sockbuf, received>>
    /\ UNCHANGED <<clockVars, dfaVars, analyzerVars, handlerVars, lbVars,
                   learnerVars, labelerVars, controlVars>>

\* archive_alerts(alert_ids, archive_reason) is called in thread t with a
\* list of ids or with None
ArchiveCall(t, ids) ==
    /\ nArchives < MaxArchives
    /\ arch[t].pc = "idle"
    /\ arch' = [arch EXCEPT ![t] = [pc |-> "called", ids |-> ids,
                                    rows |-> <<>>, reason |-> "manual"]]
    /\ nArchives' = nArchives + 1
    /\ UNCHANGED <<dialect, archived_alerts, committed_rows, insert_ret,
                   nInserts>>
    /\ UNCHANGED <<clockVars, snifferVars, lbVars, learnerVars, labelerVars,
                   hubVars, controlVars>>

\* auto_rotate_old_alerts in thread t: the alerts older than the cutoff are
\* the first k rows in insertion order; their ids are handed to
\* archive_alerts, and nothing is done when there are none
RotateSelect(t, k) ==
    /\ nArchives < MaxArchives
    /\ arch[t].pc = "idle"
    /\ k <= Len(alerts)
    /\ LET old_ids == {alerts[i].id : i \in 1..k}
       IN  arch' = [arch EXCEPT ![t] =
                       IF old_ids = {} THEN IdleArchive
                       ELSE [pc |-> "called", ids |-> <<old_ids>>,
                             rows |-> <<>>, reason |-> "auto_rotation"]]
    /\ nArchives' = nArchives + 1
    /\ UNCHANGED <<dialect, archived_alerts, committed_rows, insert_ret,
                   nInserts>>
    /\ UNCHANGED <<clockVars, snifferVars, lbVars, learnerVars, labelerVars,
                   hubVars, controlVars>>

\* archive_alerts: the query is filtered by the ids only if alert_ids is
\* true; query.all()
ArchiveQuery(t) ==
    /\ arch[t].pc = "called"
    /\ arch' = [arch EXCEPT ![t].pc = "selected",
                            ![t].rows =
                                SelectSeq(alerts, LAMBDA r :
                                    HasIds(arch[t].ids)
                                       => r.id \in arch[t].ids[1])]
    /\ UNCHANGED <<dialect, archived_alerts, committed_rows, insert_ret,
                   nInserts, nArchives>>
    /\ UNCHANGED <<clockVars, snifferVars, lbVars, learnerVars, labelerVars,
                   hubVars, controlVars>>

\* the archived copy of the i-th selected row
ArchivedCopy(rows, i, n, reason) ==
    [id |-> n + i, original_id |-> rows[i].id, module |-> rows[i].module,
     reason |-> rows[i].reason, src_ip |-> rows[i].src_ip,
     src_mac |-> rows[i].src_mac, archive_reason |-> reason]

\* archive_alerts: session.commit() sends one INSERT for every selected
\* row and one DELETE by primary key for each, and a DELETE that matches
\* no row is no error; when the commit raises, the session is rolled back
\* and the exception raised again
ArchiveCommit(t, ok) ==
    /\ arch[t].pc = "selected"
    /\ LET rows == arch[t].rows
           gone == {rows[i].id : i \in 1..Len(rows)}
       IN  IF ok
           THEN /\ archived_alerts' =
                      archived_alerts \o
                      [i \in 1..Len(rows) |->
                          ArchivedCopy(rows, i, Len(archived_alerts),
                                       arch[t].reason)]
                /\ alerts' = SelectSeq(alerts, LAMBDA r : r.id \notin gone)
           ELSE UNCHANGED <<archived_alerts, alerts>>
    /\ arch' = [arch EXCEPT ![t] = IdleArchive]
    /\ UNCHANGED <<dialect, committed_rows, insert_ret, nInserts, nArchives,
                   next_alert_id>>
    /\ UNCHANGED <<clockVars, dfaVars, analyzerVars, handlerVars, lbVars,
                   learnerVars, labelerVars, hubVars, controlVars>>

(***************************************************************************)
(* SnifferManager  (api.py)                                                *)
(* start and stop run under SnifferManager._lock, one at a time.  The      *)
(* sniffer is a scapy AsyncSniffer: start() starts its capture thread, the *)
(* thread sets the attribute running when it begins to capture and clears  *)
(* it when the capture ends; stop() on a sniffer that is not running       *)
(* raises.                                                                 *)
(***************************************************************************)
\* number of sniffers created in one run
MaxSniffers == 3

SnifferIds == 1..MaxSniffers

InitManager ==
    /\ mgr_sniffer = Nothing
    /\ sniffer_thread = [n \in SnifferIds |-> "none"]
    /\ mgr_interface = None
    /\ mgr_ret = None
    /\ nSniffers = 0

\* self._sniffer and self._sniffer.running
ManagerRunning(held, threads) ==
    held # Nothing /\ threads[held[1]] = "running"

\* the capture threads that are capturing, or about to
ActiveSniffers(threads) ==
    {n \in SnifferIds : threads[n] \in {"starting", "running"}}

\* SnifferManager.start(interface), as the endpoint answers it: 400 when it
\* raises RuntimeError
ManagerStart(iface) ==
    IF ManagerRunning(mgr_sniffer, sniffer_thread)
    THEN /\ mgr_ret' = "already_running"
         /\ UNCHANGED <<mgr_sniffer, sniffer_thread, mgr_interface, nSniffers>>
         /\ UNCHANGED notManager
    ELSE /\ nSniffers < MaxSniffers
         /\ nSniffers' = nSniffers + 1
         /\ sniffer_thread' =
              [sniffer_thread EXCEPT ![nSniffers + 1] = "starting"]
         /\ mgr_sniffer' = Some(nSniffers + 1)
         /\ mgr_interface' = iface
         /\ mgr_ret' = "started"
         /\ UNCHANGED notManager

\* the capture thread of sniffer n begins to capture and sets running
CaptureBegins(n) ==
    /\ sniffer_thread[n] = "starting"
    /\ sniffer_thread' = [sniffer_thread EXCEPT ![n] = "running"]
    /\ UNCHANGED <<mgr_sniffer, mgr_interface, mgr_ret, nSniffers>>
    /\ UNCHANGED notManager

\* the capture of sniffer n ends on its own (the socket cannot be opened,
\* the interface goes away)
CaptureEnds(n) ==
    /\ sniffer_thread[n] \in {"starting", "running"}
    /\ sniffer_thread' = [sniffer_thread EXCEPT ![n] = "ended"]
    /\ UNCHANGED <<mgr_sniffer, mgr_interface, mgr_ret, nSniffers>>
    /\ UNCHANGED notManager

\* SnifferManager.stop(), as the endpoint answers it: 400 when it returns
\* False.  sniffer.stop() ends a running capture or raises; the exception is
\* caught, and the finally clause forgets the sniffer either way.
ManagerStop(stopped) ==
    IF mgr_sniffer = Nothing
    THEN /\ stopped
         /\ mgr_ret' = "not_running"
         /\ UNCHANGED <<mgr_sniffer, sniffer_thread, mgr_interface, nSniffers>>
         /\ UNCHANGED notManager
    ELSE /\ stopped => sniffer_thread[mgr_sniffer[1]] = "running"
         /\ sniffer_thread' =
              IF stopped
              THEN [sniffer_thread EXCEPT ![mgr_sniffer[1]] = "ended"]
              ELSE sniffer_thread
         /\ mgr_sniffer' = Nothing
         /\ mgr_interface' = None
         /\ mgr_ret' = "stopped"
         /\ UNCHANGED nSniffers
         /\ UNCHANGED notManager

(***************************************************************************)
(* ThreatIntelService  (core/threat_intel_db.py)                           *)
(* Every caller has a service with a database session of its own           *)
(* (get_threat_intel_db).  The query loads the row into the session; the   *)
(* commit writes the attributes the caller has assigned.                   *)
(***************************************************************************)
IntelCallers == {"req1", "req2"}

\* number of search_indicator calls in one run
MaxLookups == 3

\* ttl_hours of the indicator added, in ticks: none, or 1
TtlChoices == {Nothing, Some(1)}

IdleLookup == [pc |-> "idle", hit_count |-> 0, expires_at |-> Nothing]

InitIntel ==
    /\ ti_row = Nothing
    /\ ti_call = [c \in IntelCallers |-> IdleLookup]
    /\ ti_ret = [c \in IntelCallers |-> None]
    /\ ti_matched = 0
    /\ nLookups = 0

\* add_indicator for a value that is not in the table
AddIndicator(ttl) ==
    /\ ti_row = Nothing
    /\ ti_row' = Some([hit_count |-> 0, last_hit |-> Nothing,
                       is_active |-> TRUE,
                       expires_at |-> IF ttl = Nothing THEN Nothing
                                      ELSE Some(now + ttl[1])])
    /\ UNCHANGED <<ti_call, ti_ret, ti_matched, nLookups>>
    /\ UNCHANGED <<clockVars, notIntel>>

\* search_indicator, the query: the active indicator of that value, if any
SearchQuery(c) ==
    /\ nLookups < MaxLookups
    /\ ti_call[c].pc = "idle"
    /\ nLookups' = nLookups + 1
    /\ IF ti_row # Nothing /\ ti_row[1].is_active
       THEN /\ ti_call' = [ti_call EXCEPT ![c] =
                              [pc |-> "loaded",
                               hit_count |-> ti_row[1].hit_count,
                               expires_at |-> ti_row[1].expires_at]]
            /\ UNCHANGED ti_ret
       ELSE /\ ti_ret' = [ti_ret EXCEPT ![c] = "none"]
            /\ UNCHANGED ti_call
    /\ UNCHANGED <<ti_row, ti_matched>>
    /\ UNCHANGED <<clockVars, notIntel>>

\* the value search_indicator assigns to hit_count: one more than the value
\* its session has loaded
NextHitCount(loaded, stored) == loaded + 1

\* search_indicator, after the query: an expired indicator is deactivated
\* and None is returned; otherwise hit_count and last_hit are assigned and
\* committed
SearchCommit(c) ==
    /\ ti_call[c].pc = "loaded"
    /\ LET e == ti_call[c].expires_at
       IN  IF e # Nothing /\ e[1] < now
           THEN /\ ti_row' = Some([ti_row[1] EXCEPT !.is_active = FALSE])
                /\ ti_ret' = [ti_ret EXCEPT ![c] = "none"]
                /\ UNCHANGED ti_matched
           ELSE /\ ti_row' = Some([ti_row[1] EXCEPT
                                     !.hit_count =
                                        NextHitCount(ti_call[c].hit_count, @),
                                     !.last_hit = Some(now)])
                /\ ti_ret' = [ti_ret EXCEPT ![c] = "found"]
                /\ ti_matched' = ti_matched + 1
    /\ ti_call' = [ti_call EXCEPT ![c] = IdleLookup]
    /\ UNCHANGED nLookups
    /\ UNCHANGED <<clockVars, notIntel>>

(***************************************************************************)
(* MitigationService  (core/mitigation.py)                                 *)
(* Every method opens a session of its own.  execute_mitigation is called  *)
(* by the API process and by the Celery task execute_mitigation_async, in  *)
(* processes of their own.                                                 *)
(***************************************************************************)
Executors == {"api", "celery"}

\* number of mitigation requests created in one run
MaxActions == 2

\* number of execute_mitigation calls in one run
MaxExecs == 3

ActionIds == 1..MaxActions

ActionTypes == {"block_ip", "block_mac", "rate_limit"}

TargetIp == "10.0.0.1"

TargetMac == "aa:bb:cc:11:22:33"

\* the target fields a request of a type carries: an IP to block, a MAC to
\* block, an IP to limit
TargetsOf(action_type) ==
    IF action_type = "block_mac"
    THEN [target_ip |-> None, target_mac |-> TargetMac]
    ELSE [target_ip |-> TargetIp, target_mac |-> None]

\* MitigationRequest: the requests tried
Requests ==
    {[action_type |-> t, target_ip |-> TargetsOf(t).target_ip,
      target_mac |-> TargetsOf(t).target_mac, auto_approve |-> b] :
        t \in ActionTypes, b \in BOOLEAN}

\* the whitelist entries tried: one for the IP, one for the MAC
WhitelistEntries ==
    {[ip_address |-> TargetIp, mac_address |-> None],
     [ip_address |-> None, mac_address |-> TargetMac]}

IdleExec == [pc |-> "idle", id |-> 0]

InitMitigation ==
    /\ mit_actions = <<>>
    /\ whitelist = {}
    /\ mit_exec = [e \in Executors |-> IdleExec]
    /\ mit_ret = None
    /\ backend_calls = <<>>
    /\ nExecs = 0

\* _is_whitelisted(ip, mac) over the rows wl of the whitelist
_is_whitelisted(wl, ip, mac) ==
    \/ ip # None /\ \E entry \in wl : entry.ip_address = ip
    \/ mac # None /\ \E entry \in wl : entry.mac_address = mac

\* add_to_whitelist(ip, mac): one of the two is given at least; the columns
\* are unique, an entry that is there already is refused
AddToWhitelist(ip, mac) ==
    /\ ip # None \/ mac # None
    /\ [ip_address |-> ip, mac_address |-> mac] \notin whitelist
    /\ whitelist' = whitelist \cup {[ip_address |-> ip, mac_address |-> mac]}
    /\ mit_ret' = "whitelisted"
    /\ UNCHANGED <<mit_actions, mit_exec, backend_calls, nExecs>>
    /\ UNCHANGED notMitigation

\* remove_from_whitelist
RemoveFromWhitelist(entry) ==
    /\ entry \in whitelist
    /\ whitelist' = whitelist \ {entry}
    /\ mit_ret' = "removed"
    /\ UNCHANGED <<mit_actions, mit_exec, backend_calls, nExecs>>
    /\ UNCHANGED notMitigation

\* create_mitigation_request: ValueError for a whitelisted target; otherwise
\* the row is inserted, APPROVED when the request asks for auto-approval
CreateMitigationRequest(req) ==
    /\ Len(mit_actions) < MaxActions
    /\ IF _is_whitelisted(whitelist, req.target_ip, req.target_mac)
       THEN /\ mit_ret' = "target_whitelisted"
            /\ UNCHANGED mit_actions
       ELSE /\ mit_actions' =
                 Append(mit_actions,
                        [action_type |-> req.action_type,
                         target_ip |-> req.target_ip,
                         target_mac |-> req.target_mac,
                         status |-> IF req.auto_approve THEN "approved"
                                    ELSE "pending"])
            /\ mit_ret' = "created"
    /\ UNCHANGED <<whitelist, mit_exec, backend_calls, nExecs>>
    /\ UNCHANGED notMitigation

\* approve_mitigation: False for an unknown action, ValueError for one that
\* is not PENDING
ApproveMitigation(a) ==
    /\ IF a \notin DOMAIN mit_actions
       THEN mit_ret' = "not_found" /\ UNCHANGED mit_actions
       ELSE IF mit_actions[a].status # "pending"
       THEN mit_ret' = "not_pending" /\ UNCHANGED mit_actions
       ELSE /\ mit_actions' = [mit_actions EXCEPT ![a].status = "approved"]
            /\ mit_ret' = "approved"
    /\ UNCHANGED <<whitelist, mit_exec, backend_calls, nExecs>>
    /\ UNCHANGED notMitigation

\* the status with which execute_mitigation goes on to the backend
MayExecute(status) == status = "approved"

\* execute_mitigation, the query and the test of the status: ValueError for
\* an unknown action or one that is not APPROVED
ExecQuery(e, a) ==
    /\ nExecs < MaxExecs
    /\ mit_exec[e].pc = "idle"
    /\ nExecs' = nExecs + 1
    /\ IF a \notin DOMAIN mit_actions
       THEN mit_ret' = "not_found" /\ UNCHANGED mit_exec
       ELSE IF ~MayExecute(mit_actions[a].status)
       THEN mit_ret' = "not_approved" /\ UNCHANGED mit_exec
       ELSE /\ mit_exec' = [mit_exec EXCEPT ![e] = [pc |-> "checked", id |-> a]]
            /\ UNCHANGED mit_ret
    /\ UNCHANGED <<mit_actions, whitelist, backend_calls>>
    /\ UNCHANGED notMitigation

\* the action types for which execute_mitigation calls the backend
CallsBackend(action_type) == action_type \in {"block_ip", "block_mac"}

\* execute_mitigation: the status EXECUTING is committed and the backend is
\* called for the target of the action
ExecInvoke(e) ==
    /\ mit_exec[e].pc = "checked"
    /\ LET a == mit_exec[e].id
           row == mit_actions[a]
       IN  /\ mit_actions' = [mit_actions EXCEPT ![a].status = "executing"]
           /\ backend_calls' =
                IF CallsBackend(row.action_type)
                THEN Append(backend_calls,
                            [id |-> a, status |-> row.status,
                             whitelisted |->
                                _is_whitelisted(whitelist, row.target_ip,
                                                row.target_mac)])
                ELSE backend_calls
    /\ mit_exec' = [mit_exec EXCEPT ![e].pc = "invoked"]
    /\ UNCHANGED <<whitelist, mit_ret, nExecs>>
    /\ UNCHANGED notMitigation

\* execute_mitigation: the backend has answered or raised, the status
\* SUCCESS or FAILED is committed
ExecEnd(e, success) ==
    /\ mit_exec[e].pc = "invoked"
    /\ LET a == mit_exec[e].id
       IN  /\ success => CallsBackend(mit_actions[a].action_type)
           /\ mit_actions' =
                [mit_actions EXCEPT ![a].status =
                    IF success THEN "success" ELSE "failed"]
    /\ mit_ret' = IF success THEN "executed" ELSE "execution_failed"
    /\ mit_exec' = [mit_exec EXCEPT ![e] = IdleExec]
    /\ UNCHANGED <<whitelist, backend_calls, nExecs>>
    /\ UNCHANGED notMitigation

(***************************************************************************)
(* PacketBuffer  (core/packet_buffer.py)                                   *)
(* The frame of the n-th put is n.                                         *)
(***************************************************************************)
\* PacketBuffer(max_size): the capacity of the buffer (10000 in the source)
max_size == 2

\* PacketBuffer(batch_size): the most frames get_batch returns (32 in the
\* source)
buffer_batch_size == 2

\* number of put calls in one run
MaxPuts == 4

OverflowStrategies == {"drop", "block"}

InitBuffer ==
    /\ pb_queue = <<>>
    /\ pb_stats = [total_received |-> 0, total_processed |-> 0,
                   total_dropped |-> 0, total_batches |-> 0]
    /\ pb_config = [overflow_strategy |-> "drop", enable_stats |-> TRUE]
    /\ pb_ret = None
    /\ nPuts = 0

\* PacketBuffer(overflow_strategy, enable_stats): the buffer is built with
\* other arguments than the default ones, before any of its methods runs
NewPacketBuffer(strat, enable) ==
    /\ nPuts = 0 /\ pb_stats.total_batches = 0
    /\ pb_config = [overflow_strategy |-> "drop", enable_stats |-> TRUE]
    /\ pb_config' = [overflow_strategy |-> strat, enable_stats |-> enable]
    /\ pb_config' # pb_config
    /\ UNCHANGED <<pb_queue, pb_stats, pb_ret, nPuts>>
    /\ UNCHANGED notBuffer

\* what put leaves in a full queue that takes no frame: the queue as it is
FullQueueAfterPut(q, packet) == q

\* put(packet, block): on a full buffer the frame is dropped (strategy
\* "drop", or a put that does not wait); a put that waits goes on when the
\* buffer has room
BufferPut(block) ==
    /\ nPuts < MaxPuts
    /\ LET packet == nPuts + 1
           full == Len(pb_queue) >= max_size
           count(c) == IF pb_config.enable_stats
                       THEN [pb_stats EXCEPT ![c] = @ + 1] ELSE pb_stats
       IN  IF full
           THEN /\ pb_config.overflow_strategy = "drop" \/ ~block
                /\ pb_queue' = FullQueueAfterPut(pb_queue, packet)
                /\ pb_stats' = count("total_dropped")
                /\ pb_ret' = FALSE
           ELSE /\ pb_queue' = Append(pb_queue, packet)
                /\ pb_stats' = count("total_received")
                /\ pb_ret' = TRUE
    /\ nPuts' = nPuts + 1
    /\ UNCHANGED pb_config
    /\ UNCHANGED notBuffer

\* get_batch: the k oldest frames leave the buffer, k at most batch_size
\* and as many as the timeout lets it collect
BufferGetBatch(k) ==
    /\ k \in 1..buffer_batch_size
    /\ k <= Len(pb_queue)
    /\ pb_queue' = SubSeq(pb_queue, k + 1, Len(pb_queue))
    /\ pb_stats' = IF pb_config.enable_stats
                   THEN [pb_stats EXCEPT !.total_processed = @ + k,
                                         !.total_batches = @ + 1]
                   ELSE pb_stats
    /\ UNCHANGED <<pb_config, pb_ret, nPuts>>
    /\ UNCHANGED notBuffer

(***************************************************************************)
(* PacketBuffer.put called from several capture threads: the test of       *)
(* queue.full() and queue.put are two steps, and another thread may put or *)
(* take a frame between them.                                              *)
(***************************************************************************)
IdlePut == [pc |-> "idle", packet |-> 0, block |-> FALSE]

InitPut == pb_put = [i \in Interfaces |-> IdlePut]

putLeft == <<baseVars, managerVars, intelVars, mitigationVars, lifeVars,
             fanoutVars, ifaceVars, restartVars>>

\* the count of a statistic, when statistics are enabled
CountStat(c) ==
    IF pb_config.enable_stats THEN [pb_stats EXCEPT ![c] = @ + 1]
    ELSE pb_stats

\* put(packet, block) in capture thread i, up to queue.put: with strategy
\* "drop" a full queue drops the frame at once
PutTest(i, block) ==
    /\ nPuts < MaxPuts
    /\ pb_put[i].pc = "idle"
    /\ IF pb_config.overflow_strategy = "drop" /\ Len(pb_queue) >= max_size
       THEN /\ pb_stats' = CountStat("total_dropped")
            /\ pb_ret' = FALSE
            /\ pb_put' = pb_put
       ELSE /\ pb_put' = [pb_put EXCEPT ![i] =
                             [pc |-> "put", packet |-> nPuts + 1,
                              block |-> block]]
            /\ UNCHANGED <<pb_stats, pb_ret>>
    /\ nPuts' = nPuts + 1
    /\ UNCHANGED <<pb_queue, pb_config>>
    /\ UNCHANGED putLeft

\* queue.put(packet, block=block, timeout=None): on a full queue it raises
\* queue.Full when it may not wait, and waits for room when it may
PutEnqueue(i) ==
    /\ pb_put[i].pc = "put"
    /\ IF Len(pb_queue) >= max_size
       THEN /\ ~pb_put[i].block
            /\ pb_stats' = CountStat("total_dropped")
            /\ pb_ret' = FALSE
            /\ pb_queue' = pb_queue
       ELSE /\ pb_queue' = Append(pb_queue, pb_put[i].packet)
            /\ pb_stats' = CountStat("total_received")
            /\ pb_ret' = TRUE
    /\ pb_put' = [pb_put EXCEPT ![i] = IdlePut]
    /\ UNCHANGED <<pb_config, nPuts>>
    /\ UNCHANGED putLeft

\* capture thread i waits in queue.put for room in the queue
PutWaits(i) ==
    /\ pb_put[i].pc = "put" /\ pb_put[i].block
    /\ Len(pb_queue) >= max_size

(***************************************************************************)
(* InterfaceManager  (core/multi_interface.py)                             *)
(* self.lock is a threading.Lock: a thread that holds it and acquires it   *)
(* again waits for itself.  MultiInterfaceSniffer.get_statistics calls     *)
(* interface_manager.get_stats() for all interfaces.                       *)
(***************************************************************************)
\* the threads that ask for statistics
StatsCallers == {"api", "monitor"}

\* number of get_stats calls made from outside in one run
MaxStatsCalls == 3

IdleStats == [pc |-> "idle", name |-> None, depth |-> 0]

InitInterfaces ==
    /\ im_interfaces = {}
    /\ im_lock = None
    /\ im_call = [c \in StatsCallers |-> IdleStats]
    /\ nStatsCalls = 0

notInterfaces == <<baseVars, managerVars, intelVars, mitigationVars,
                   bufferVars, lifeVars, fanoutVars, putVars,
                   restartVars>>

\* add_interface, under the lock
AddInterface(name) ==
    /\ im_lock = None
    /\ name \notin im_interfaces
    /\ im_interfaces' = im_interfaces \cup {name}
    /\ UNCHANGED <<im_lock, im_call, nStatsCalls>>
    /\ UNCHANGED notInterfaces

\* get_stats(name) is called by thread c; name None asks for all interfaces
GetStats(c, name) ==
    /\ nStatsCalls < MaxStatsCalls
    /\ im_call[c].pc = "idle"
    /\ im_call' = [im_call EXCEPT ![c] = [pc |-> "lock", name |-> name,
                                          depth |-> 0]]
    /\ nStatsCalls' = nStatsCalls + 1
    /\ UNCHANGED <<im_interfaces, im_lock>>
    /\ UNCHANGED notInterfaces

\* with self.lock: the thread goes on once the lock is free
AcquireLock(c) ==
    /\ im_call[c].pc = "lock"
    /\ im_lock = None
    /\ im_lock' = c
    /\ im_call' = [im_call EXCEPT ![c].pc = "body"]
    /\ UNCHANGED <<im_interfaces, nStatsCalls>>
    /\ UNCHANGED notInterfaces

\* the body of get_stats: for one name it returns that interface's entry and
\* releases the lock; for all interfaces it returns {} when there is none
\* and else calls self.get_stats(name) for the first one, the lock held
GetStatsBody(c) ==
    /\ im_call[c].pc = "body"
    /\ IF im_call[c].name # None \/ im_interfaces = {}
       THEN /\ im_call' = [im_call EXCEPT ![c] = IdleStats]
            /\ im_lock' = None
       ELSE /\ \E name \in im_interfaces :
                  im_call' = [im_call EXCEPT ![c] =
                                 [pc |-> "lock", name |-> name, depth |-> 1]]
            /\ im_lock' = im_lock
    /\ UNCHANGED <<im_interfaces, nStatsCalls>>
    /\ UNCHANGED notInterfaces

\* a thread waits for the lock it holds itself
SelfBlocked(c) == im_call[c].pc = "lock" /\ im_lock = c

InitLife ==
    /\ last_control = None
    /\ stopper_pc = "idle"
    /\ join_until = 0

InitLate ==
    /\ InitLife /\ InitFanout /\ InitInterfaces /\ InitPut
    /\ nRestarts = 0

InitControl ==
    /\ InitManager /\ InitIntel /\ InitMitigation /\ InitBuffer
    /\ InitLate

(***************************************************************************)
(* The specifications                                                      *)
(***************************************************************************)
Init ==
    /\ InitClock /\ InitDFA /\ InitAnalyzer /\ InitAlerts /\ InitHandler
    /\ InitLB /\ InitDetector /\ InitLearner /\ InitLabeler
    /\ InitHub /\ InitStore /\ InitControl

\* the clock moves on between two calls
AdvanceTime(d) ==
    /\ nAdvances < MaxAdvances
    /\ now' = now + d
    /\ nAdvances' = nAdvances + 1
    /\ UNCHANGED <<snifferVars, lbVars, learnerVars, serviceVars>>

\* one call of DFAFilter.check
DFACheckCall(pkt) ==
    /\ nChecks < MaxChecks
    /\ LET r == DFACheck(pkt, now, ip_mac, grat_counts)
       IN  /\ ip_mac' = r.ip_mac
           /\ grat_counts' = r.grat_counts
           /\ dfa_ret' = r.ret
    /\ lastPkt' = pkt
    /\ nChecks' = nChecks + 1
    /\ UNCHANGED <<clockVars, analyzerVars, alertVars, handlerVars, lbVars,
                   learnerVars, serviceVars>>

NextDFA ==
    \/ \E d \in TimeSteps : AdvanceTime(d)
    \/ \E pkt \in DFAFrames : DFACheckCall(pkt)

SpecDFA == Init /\ [][NextDFA]_vars

\* the frames fed to the packet handler: replies to 10.0.0.2 from every
\* sender IP and MAC (those from 10.0.0.2 itself are gratuitous), requests
\* of the registered host, a reply sent to the broadcast address, and a
\* frame without ARP layer
SnifferFrames ==
    {f \in ArpFrames :
        \/ f.op = 2 /\ f.pdst = "10.0.0.2" /\ f.hwdst = "00:50:56:00:00:01"
        \/ /\ f.op = 1 /\ f.hwsrc = "00:50:56:00:00:01" /\ f.psrc # f.pdst
           /\ f.hwdst = "00:50:56:00:00:01"
        \/ /\ f.op = 2 /\ f.hwdst = Broadcast /\ f.hwsrc = "00:50:56:00:00:01"
           /\ f.psrc = "10.0.0.1" /\ f.pdst = "10.0.0.2"}
    \cup {NonArpFrame}

NextSniffer ==
    \/ \E d \in TimeSteps : AdvanceTime(d)
    \/ \E pkt \in SnifferFrames : HandleNonArp(pkt)
    \/ \E pkt \in SnifferFrames, predicted \in {0, 1}, db_ok \in BOOLEAN :
          HandleArp(pkt, predicted, db_ok)

SpecSniffer == Init /\ [][NextSniffer]_vars

\* the pipeline over a time longer than max_age: the clock advances by
\* 50 ms or by just over max_age
LongTimeSteps == {1, max_age * TicksPerSecond + 1}

NextPipeline ==
    \/ \E d \in LongTimeSteps : AdvanceTime(d)
    \/ \E pkt \in SnifferFrames : HandleNonArp(pkt)
    \/ \E pkt \in SnifferFrames, predicted \in {0, 1}, db_ok \in BOOLEAN :
          HandleArp(pkt, predicted, db_ok)

\* the pipeline goes on as long as it has a frame to handle or time to pass
SpecPipeline == Init /\ [][NextPipeline]_vars /\ WF_vars(NextPipeline)

NextLB ==
    \/ \E s \in Strategies : NewLoadBalancer(s)
    \/ \E i \in Interfaces : AssignPacket(i)
    \/ \E i \in Interfaces : GetRoundRobinWorker(i)
    \/ \E i \in Interfaces : GetAffinityWorker(i)
    \/ \E i \in Interfaces : GetLeastLoadedWorker(i)
    \/ \E i \in Interfaces : PutNowait(i)
    \/ StartWorkers
    \/ StopWorkers
    \/ StopReturn
    \/ \E w \in Lanes, g \in Generations : WorkerGet(w, g)
    \/ \E w \in Lanes, g \in Generations : WorkerCall(w, g)
    \/ \E w \in Lanes, g \in Generations, ok \in BOOLEAN :
          WorkerProcess(w, g, ok)
    \/ \E w \in Lanes, g \in Generations : WorkerExit(w, g)

SpecLB == Init /\ [][NextLB]_vars

NextLearner ==
    \/ \E d \in LearnerTimeSteps : AdvanceTime(d)
    \/ \E m \in LearnerAlertModules : AlertRaised(m)
    \/ PredictBegin
    \/ PredictEnd
    \/ StartContinuousLearning
    \/ LoopTest
    \/ ShouldTrainTime
    \/ ShouldTrainCount
    \/ LoopWake
    \/ ForceTrainingCycle
    \/ trigger_training
    \/ \E t \in CycleThreads : BackupCurrentModel(t)
    \/ \E t \in CycleThreads : IncrementalUpdateBegin(t)
    \/ \E t \in CycleThreads :
          \E m \in {incremental_update(cyc[t].n, r) : r \in UpdateRuns}
                    \cup {EmptyMetrics} :
             IncrementalUpdateEnd(t, m)
    \/ \E t \in CycleThreads : ValidateModel(t)
    \/ \E t \in CycleThreads : ReloadModel(t)
    \/ \E t \in CycleThreads : UpdateState(t)
    \/ \E t \in CycleThreads : FinishCycle(t)

SpecLearner == Init /\ [][NextLearner]_vars

\* the amounts the clock advances by while the loop is started and
\* stopped: the timeout of the join and the sleep of the loop
LifeTimeSteps == {JoinTimeout, LoopSleep}

\* the learning loop under its control calls, with no alert to learn from
NextLife ==
    \/ \E d \in LifeTimeSteps : AdvanceTime(d)
    \/ StartContinuousLearning
    \/ StopContinuousLearning
    \/ StopReturn_Learner
    \/ LoopTest
    \/ ShouldTrainTime
    \/ ShouldTrainCount
    \/ LoopWake

SpecLife == Init /\ [][NextLife]_vars

NextLabeler ==
    \E m \in AlertModules, r \in Reasons : AutoLabelAlert(m, r)

SpecLabeler == Init /\ [][NextLabeler]_vars

NextManager ==
    \/ \E iface \in Interfaces : ManagerStart(iface)
    \/ \E stopped \in BOOLEAN : ManagerStop(stopped)
    \/ \E n \in SnifferIds : CaptureBegins(n)
    \/ \E n \in SnifferIds : CaptureEnds(n)

SpecManager == Init /\ [][NextManager]_vars

NextIntel ==
    \/ \E d \in TimeSteps : AdvanceTime(d)
    \/ \E ttl \in TtlChoices : AddIndicator(ttl)
    \/ \E c \in IntelCallers : SearchQuery(c)
    \/ \E c \in IntelCallers : SearchCommit(c)

SpecIntel == Init /\ [][NextIntel]_vars

NextMitigation ==
    \/ \E entry \in WhitelistEntries :
          AddToWhitelist(entry.ip_address, entry.mac_address)
    \/ \E entry \in whitelist : RemoveFromWhitelist(entry)
    \/ \E req \in Requests : CreateMitigationRequest(req)
    \/ \E a \in ActionIds : ApproveMitigation(a)
    \/ \E e \in Executors, a \in ActionIds : ExecQuery(e, a)
    \/ \E e \in Executors : ExecInvoke(e)
    \/ \E e \in Executors, success \in BOOLEAN : ExecEnd(e, success)

SpecMitigation == Init /\ [][NextMitigation]_vars

NextBuffer ==
    \/ \E strat \in OverflowStrategies, enable \in BOOLEAN :
          NewPacketBuffer(strat, enable)
    \/ \E block \in BOOLEAN : BufferPut(block)
    \/ \E k \in 1..buffer_batch_size : BufferGetBatch(k)

SpecBuffer == Init /\ [][NextBuffer]_vars

\* the buffer with its default configuration, filled by the capture threads
\* and emptied by the processor thread
NextProducers ==
    \/ \E i \in Interfaces, block \in BOOLEAN : PutTest(i, block)
    \/ \E i \in Interfaces : PutEnqueue(i)
    \/ \E k \in 1..buffer_batch_size : BufferGetBatch(k)

SpecProducers == Init /\ [][NextProducers]_vars

NextStore ==
    \/ \E d \in Dialects : SetDatabaseUrl(d)
    \/ \E db_ok \in BOOLEAN : InsertAlert("DFA", db_ok, TRUE)
    \/ \E t \in ArchiveThreads,
          ids \in {<<>>} \cup {<<l>> : l \in SUBSET AlertIds} :
             ArchiveCall(t, ids)
    \/ \E t \in ArchiveThreads, k \in 0..MaxInserts : RotateSelect(t, k)
    \/ \E t \in ArchiveThreads : ArchiveQuery(t)
    \/ \E t \in ArchiveThreads, ok \in BOOLEAN : ArchiveCommit(t, ok)

SpecStore == Init /\ [][NextStore]_vars

NextHub ==
    \/ \E db_ok \in BOOLEAN, pub_ok \in BOOLEAN :
          InsertAlert("DFA", db_ok, pub_ok)
    \/ \E s \in Subscribers : Connect(s)
    \/ \E s \in Subscribers : SubscriberRead(s)
    \/ \E s \in Subscribers : SubscriberClose(s)
    \/ \E s \in Subscribers : EndpointDisconnect(s)
    \/ BroadcastSend
    \/ BroadcastEnd

SpecHub == Init /\ [][NextHub]_vars

\* alerts raised from several threads at once; a closed connection stays
\* registered until a broadcast that failed on it removes it
NextFanout ==
    \/ \E p \in Producers : Publish(p)
    \/ \E p \in Producers : PublishSend(p)
    \/ \E p \in Producers : PublishEnd(p)
    \/ \E s \in Subscribers : Connect(s)
    \/ \E s \in Subscribers : SubscriberRead(s)
    \/ \E s \in Subscribers : SubscriberClose(s)

SpecFanout == Init /\ [][NextFanout]_vars

NextInterfaces ==
    \/ \E name \in Interfaces : AddInterface(name)
    \/ \E c \in StatsCallers, name \in Interfaces \cup {None} : GetStats(c, name)
    \/ \E c \in StatsCallers : AcquireLock(c)
    \/ \E c \in StatsCallers : GetStatsBody(c)

SpecInterfaces == Init /\ [][NextInterfaces]_vars

\* the training cycles without the sniffer's predictions and the train-now
\* endpoint, which neither read nor write what a cycle reads and writes
\* outside the network in memory
NextCycles ==
    \/ \E d \in LearnerTimeSteps : AdvanceTime(d)
    \/ \E m \in LearnerAlertModules : AlertRaised(m)
    \/ StartContinuousLearning
    \/ LoopTest
    \/ ShouldTrainTime
    \/ ShouldTrainCount
    \/ LoopWake
    \/ ForceTrainingCycle
    \/ \E t \in CycleThreads : BackupCurrentModel(t)
    \/ \E t \in CycleThreads : IncrementalUpdateBegin(t)
    \/ \E t \in CycleThreads :
          \E m \in {incremental_update(cyc[t].n, r) : r \in UpdateRuns}
                    \cup {EmptyMetrics} :
             IncrementalUpdateEnd(t, m)
    \/ \E t \in CycleThreads : ValidateModel(t)
    \/ \E t \in CycleThreads : ReloadModel(t)
    \/ \E t \in CycleThreads : UpdateState(t)
    \/ \E t \in CycleThreads : FinishCycle(t)

SpecCycles == Init /\ [][NextCycles]_vars

\* the amounts the clock advances by around a restart: one sleep of the
\* loop and one learning interval
RestartTimeSteps == {LoopSleep, learning_interval}

\* the cycles of the learning loop, with restarts of the process in between
NextRestart ==
    \/ \E d \in RestartTimeSteps : AdvanceTime(d)
    \/ \E m \in LearnerAlertModules : AlertRaised(m)
    \/ StartContinuousLearning
    \/ LoopTest
    \/ ShouldTrainTime
    \/ ShouldTrainCount
    \/ LoopWake
    \/ BackupCurrentModel("loop")
    \/ IncrementalUpdateBegin("loop")
    \/ \E m \in {incremental_update(cyc["loop"].n, r) : r \in UpdateRuns}
                 \cup {EmptyMetrics} :
          IncrementalUpdateEnd("loop", m)
    \/ ValidateModel("loop")
    \/ ReloadModel("loop")
    \/ UpdateState("loop")
    \/ FinishCycle("loop")
    \/ Restart

SpecRestart == Init /\ [][NextRestart]_vars

(***************************************************************************)
(* Properties of DFAFilter.check  (SpecDFA)                                *)
(***************************************************************************)
\* a step is a call of DFAFilter.check
IsCheckStep == nChecks' # nChecks

\* C1: check raises 'IP-MAC conflict' on an ARP frame if and only if a
\* binding for the frame's sender IP existed before the frame and its MAC
\* differed from the frame's source MAC.
C1_ConflictIffChanged ==
    [][(IsCheckStep /\ lastPkt'.arp) =>
         ((dfa_ret'.reason = "IP-MAC conflict")
            <=> (/\ lastPkt'.psrc \in DOMAIN ip_mac
                 /\ ip_mac[lastPkt'.psrc] # lastPkt'.hwsrc))]_vars

\* a conflict was raised on an ARP frame whose sender IP had been bound
C1_Witness ==
    /\ nChecks >= 2
    /\ lastPkt.arp
    /\ dfa_ret.reason = "IP-MAC conflict"
    /\ dfa_ret.prev_mac # lastPkt.hwsrc
    /\ ip_mac[lastPkt.psrc] = lastPkt.hwsrc

\* every timestamp of the deque dq is within the window at time t
WithinWindow(dq, t) == \A i \in 1..Len(dq) : t - dq[i] <= grat_window

\* the key of grat_counts a frame is counted under
SrcMacOf(pkt) == IF pkt.arp THEN pkt.hwsrc ELSE None

SpoofPair(p1, p2) ==
    /\ p1.arp /\ p2.arp
    /\ p1.op = 2 /\ p2.op = 2
    /\ p1.psrc = p2.psrc
    /\ p1.hwsrc # p2.hwsrc

\* the first two frames of a run are such a pair
SpoofPairStep == nPkts = 1 /\ nPkts' = 2 /\ SpoofPair(handled.pkt, handled'.pkt)

\* C3 as stated: from fresh detector state, two ARP replies with the same
\* sender IP and different source MACs raise exactly one alert in total, a
\* DFA alert with the shared IP and the second frame's MAC; the first frame
\* raises no alert from any detector.
C3_Original ==
    [][SpoofPairStep =>
         /\ handled.alert = NoAlert
         /\ handled'.alert.module = "DFA"
         /\ handled'.alert.src_ip = handled'.pkt.psrc
         /\ handled'.alert.src_mac = handled'.pkt.hwsrc
         /\ nAlerts' = 1]_vars

\* C3 amended: from fresh detector state, of two ARP replies with the same
\* sender IP and different source MACs the second raises exactly one alert,
\* a DFA alert with the shared IP and the second frame's MAC, and the first
\* raises no DFA alert (it raises at most one alert, of another detector).
C3_SpoofRaisesOneDfaAlert ==
    [][SpoofPairStep =>
         /\ handled.alert.module # "DFA"
         /\ handled'.alert.module = "DFA"
         /\ handled'.alert.src_ip = handled'.pkt.psrc
         /\ handled'.alert.src_mac = handled'.pkt.hwsrc
         /\ nAlerts' = nAlerts + 1
         /\ nAlerts <= 1]_vars

\* the spoofing pair was handled: the vendor checker alerted on the first
\* frame and the DFA on the second
C3_Witness ==
    /\ nPkts = 2
    /\ Len(alerts) = 2
    /\ alerts[1].module = "VENDOR_ANOMALY"
    /\ alerts[2].module = "DFA"
    /\ alerts[1].src_ip = alerts[2].src_ip
    /\ alerts[1].src_mac # alerts[2].src_mac
    /\ handled.alert.module = "DFA"
    /\ handled.pkt.op = 2

(***************************************************************************)
(* Properties of the load balancer  (SpecLB)                               *)
(***************************************************************************)
\* a capture thread waits in _get_least_loaded_worker for the lock it took
\* itself in _get_affinity_worker: its assign_packet call never returns
SelfDeadlocked(i) == lb_pc[i] = "least_loaded" /\ lb_lock = i

\* C4: under the affinity strategy assign_packet returns for every frame of
\* an interface and all frames of one interface are placed on one lane.
C4_AffinityOneLane ==
    strategy = "affinity" =>
        /\ \A i \in Interfaces : ~SelfDeadlocked(i)
        /\ \A i \in Interfaces :
              Cardinality({w \in Lanes : <<i, w>> \in placed}) <= 1

(***************************************************************************)
(* Properties of the continuous learner and the classifier  (SpecLearner,  *)
(* SpecCycles)                                                             *)
(***************************************************************************)
\* the threads inside _perform_training_cycle
ActiveCycles == {t \in CycleThreads : cyc[t].pc # "idle"}

\* C5: at any time at most one training cycle is active, whatever the
\* interleaving of the learning loop and of the manual requests for a cycle.
C5_AtMostOneCycle == Cardinality(ActiveCycles) <= 1

\* a thread is inside incremental_update or reload_model
TrainingInProgress ==
    \E t \in CycleThreads : cyc[t].pc \in {"training", "reload"}

\* C6: no prediction runs while incremental_update or reload_model runs on
\* the same detector.
C6_NoInferenceDuringTraining == ~(pred_pc = "forward" /\ TrainingInProgress)

\* thread t is in a cycle that validation rejected, after its rollback
RejectedCycle(t) ==
    cyc[t].outcome = "rejected" /\ cyc[t].pc \in {"reload", "update", "finally"}

\* thread t is at the end of a cycle that validation accepted
AcceptedCycleEnd(t) == cyc[t].outcome = "accepted" /\ cyc[t].pc = "finally"

\* C7: from the rollback of a rejected cycle to its end the model file holds
\* the weights it held when the cycle began.
C7_RejectedKeepsCheckpoint ==
    \A t \in CycleThreads : RejectedCycle(t) => disk_model = cyc[t].pre_disk

\* a cycle has moved the weights in memory, was rejected, copied its backup
\* over the model file and has come to its end
C7_Witness ==
    \E t \in CycleThreads :
        /\ RejectedCycle(t) /\ cyc[t].pc = "finally"
        /\ cyc[t].backup_path # Nothing
        /\ cyc[t].backup_path[1] \in DOMAIN backups
        /\ cyc[t].metrics.present

\* C8: at the end of a rejected cycle last_processed_id is what it was when
\* the cycle began, and the history has one more entry, whose outcome is
\* rejected.
C8_RejectedKeepsAlertId ==
    \A t \in CycleThreads :
        (RejectedCycle(t) /\ cyc[t].pc = "finally") =>
            /\ last_processed_id = cyc[t].pre_lpid
            /\ Len(training_history) = cyc[t].hist_len + 1
            /\ "outcome" \in DOMAIN training_history[Len(training_history)]
            /\ training_history[Len(training_history)].outcome = "rejected"

\* C9: at the end of an accepted cycle the model file holds the weights the
\* cycle accepted, the version log has one more entry, last_processed_id is
\* the largest alert id of the cycle and last_training_time is the time of
\* the commit.
C9_AcceptedCommits ==
    \A t \in CycleThreads :
        AcceptedCycleEnd(t) =>
            /\ disk_model = cyc[t].committed[1]
            /\ Len(model_versions) = cyc[t].ver_len + 1
            /\ last_processed_id = cyc[t].max_id
            /\ last_training_time = cyc[t].commit_time

\* C10: the periodic check lets a cycle begin only if, at that moment, the
\* learning interval has elapsed since the last training (if there was one)
\* and at least min_samples alerts have an id above last_processed_id.
C10_CheckBeforeCycle ==
    [][(loop_pc = "check_count" /\ loop_pc' = "cycle") =>
          /\ \/ last_training_time = Nothing
             \/ now - last_training_time[1] >= learning_interval
          /\ Len(NewAlerts(alerts, last_processed_id)) >= min_samples]_vars

\* the mean loss of a mini-batch that the returned metrics stand for
MeanLoss(m) == m.loss \div NumBatches(m.samples)

\* a cycle of thread t that has been through validation with metrics
Validated(t) ==
    /\ cyc[t].outcome \in {"accepted", "rejected"}
    /\ cyc[t].metrics.present

\* C11: a trained model is accepted if and only if its accuracy is at least
\* 70 percent and its mean loss is at most 2.0
C11_AcceptIffThresholds ==
    \A t \in CycleThreads :
        Validated(t) =>
            (cyc[t].outcome = "accepted"
                <=> /\ cyc[t].metrics.accuracy >= 70
                    /\ MeanLoss(cyc[t].metrics) <= 20)

(***************************************************************************)
(* Properties of the auto-labeller  (SpecLabeler)                          *)
(***************************************************************************)
\* the reason carries confidence c (in hundredths): its last marker is
\* followed by the numeral of c and then by closing parentheses only
Carries(reason, c) ==
    \E k \in 1..Len(reason) :
        /\ reason[k] = "confidence:"
        /\ \A j \in (k + 1)..Len(reason) : reason[j] # "confidence:"
        /\ k < Len(reason)
        /\ reason[k + 1] \in DOMAIN Float /\ Float[reason[k + 1]] = c
        /\ \A j \in (k + 2)..Len(reason) : reason[j] = ")"

Confidences == {Float[w] : w \in DOMAIN Float}

C13_SkipsUncertain ==
    LET uncertain ==
            \/ /\ lab_alert.module = "ANN"
               /\ \/ \E c \in Confidences :
                        Carries(lab_alert.reason, c) /\ 30 < c /\ c < 95
                  \/ ~HasMarker(lab_alert.reason)
            \/ lab_alert.module \notin {"DFA", "ANN"}
    IN  uncertain => lab_label = <<>> /\ lab_samples = 0

(***************************************************************************)
(* Properties of the alert store  (SpecStore)                              *)
(***************************************************************************)
\* C14: the ids the store assigns are strictly increasing in insertion
\* order, also when alerts are archived or rotated between two inserts
C14_IdsStrictlyIncreasing ==
    \A i, j \in 1..Len(committed_rows) :
        i < j => committed_rows[i].id < committed_rows[j].id

\* the number of rows of the alerts table that are alert a
ActiveCount(a) == Cardinality({i \in 1..Len(alerts) : alerts[i] = a})

\* the number of rows of archived_alerts that are copies of alert a
ArchivedCount(a) ==
    Cardinality({i \in 1..Len(archived_alerts) :
                    /\ archived_alerts[i].original_id = a.id
                    /\ archived_alerts[i].reason = a.reason})

\* C15: archiving moves rows: under any interleaving of archive, rotate
\* and insert calls every committed alert is in exactly one of the two
\* tables, exactly once
C15_ArchiveMovesAtomically ==
    \A k \in 1..Len(committed_rows) :
        ActiveCount(committed_rows[k]) + ArchivedCount(committed_rows[k]) = 1

(***************************************************************************)
(* Properties of the broadcast  (SpecHub)                                  *)
(***************************************************************************)
\* C16: a subscriber that does not read never makes the producer wait: the
\* thread that raised the alert is never held in a send to a subscriber
\* whose backlog is full
C16_SlowSubscriberNeverBlocks == ~SendWaits

\* the ids of the events that have been handed to a connection or are
\* being broadcast
PublishedIds ==
    UNION {{sockbuf[s][i] : i \in 1..Len(sockbuf[s])} \cup
           {received[s][i] : i \in 1..Len(received[s])} : s \in Subscribers}
    \cup (IF bc.pc = "sending" THEN {bc.msg} ELSE {})

CommittedIds == {committed_rows[k].id : k \in 1..Len(committed_rows)}

\* every committed alert is in the alerts table or in the archive
CommittedStayStored ==
    \A k \in 1..Len(committed_rows) :
        ActiveCount(committed_rows[k]) + ArchivedCount(committed_rows[k]) >= 1

\* a step in which generate_alert met a database error
IsDbErrorStep == nInserts' = nInserts + 1 /\ insert_ret' = "db_error"

\* C17: an event is published only for a committed row; a committed row
\* stays stored whatever the publishing does; a database error leaves the
\* tables as they were and the producer free to handle the next frame
C17_PublishAfterCommit ==
    [][/\ (PublishedIds \subseteq CommittedIds)'
       /\ CommittedStayStored'
       /\ IsDbErrorStep =>
             /\ alerts' = alerts
             /\ archived_alerts' = archived_alerts
             /\ bc'.pc = "idle"]_vars

\* the first generate_alert call met a database error, the second one
\* stored its row, and a subscriber has read its event
C17_Witness ==
    /\ nInserts = 2
    /\ Len(alerts) = 1 /\ alerts[1].reason = 2
    /\ \E s \in Subscribers : InSeq(received[s], alerts[1].id)

(***************************************************************************)
(* Properties of the analyzer's request table  (SpecSniffer)               *)
(***************************************************************************)
\* a step in which _handle_pkt handles an ARP reply
IsReplyStep == nPkts' = nPkts + 1 /\ handled'.pkt.arp /\ handled'.pkt.op = 2

\* the pending request the reply of this step answers
Answered == <<handled'.pkt.pdst, handled'.pkt.psrc>>

\* C18: every reply either matches one pending request, which is removed
\* while the unmatched-reply counter keeps its value, or matches none, and
\* the counter grows by exactly 1 while the table keeps its entries
C18_ReplyMatchesOrCounts ==
    [][IsReplyStep =>
         IF Answered \in DOMAIN pending_requests
         THEN /\ DOMAIN pending_requests' = DOMAIN pending_requests \ {Answered}
              /\ stats'.unmatched_replies = stats.unmatched_replies
         ELSE /\ DOMAIN pending_requests' = DOMAIN pending_requests
              /\ stats'.unmatched_replies = stats.unmatched_replies + 1]_vars

\* a request and the reply that answers it have been handled: the table is
\* empty again and no reply was counted as unmatched
C18_Witness ==
    /\ stats.request_count = 1 /\ stats.reply_count = 1
    /\ handled.pkt.op = 2
    /\ stats.unmatched_replies = 0
    /\ DOMAIN pending_requests = {}

\* C19: a reply that no pending request matches raises an ARP_ANOMALY alert
\* whose reason contains "Unsolicited ARP reply", and adds 1 to the
\* unmatched-reply counter
C19_UnsolicitedReplyAlerts ==
    [][(IsReplyStep /\ Answered \notin DOMAIN pending_requests) =>
         /\ handled'.alert.module = "ARP_ANOMALY"
         /\ InSeq(handled'.alert.reason,
                  "Unsolicited ARP reply (no matching request)")
         /\ stats'.unmatched_replies = stats.unmatched_replies + 1]_vars

(***************************************************************************)
(* Properties of a full lane  (SpecLB)                                     *)
(***************************************************************************)
\* capture thread i ends assign_packet on a lane whose queue is full
IsFullPutStep(i) ==
    /\ lb_pc[i] = "put" /\ lb_pc'[i] = "idle"
    /\ Len(worker_queues[lb_worker_id[i]]) >= QueueMaxSize

\* C20: when the chosen lane's queue is full the frame is dropped, the call
\* returns False without raising, a counter of the lane grows by 1, and no
\* queue is ever longer than its capacity
C20_FullLaneDropsAndCounts ==
    [][/\ \A w \in Lanes : Len(worker_queues'[w]) <= QueueMaxSize
       /\ \A i \in Interfaces :
             IsFullPutStep(i) =>
                 /\ worker_queues' = worker_queues
                 /\ lb_ret'[i] = FALSE
                 /\ \E c \in {"packets_processed", "errors"} :
                       worker_stats'[lb_worker_id[i]][c] =
                           worker_stats[lb_worker_id[i]][c] + 1]_vars

\* C21: when stop_workers returns, every frame that was accepted into a
\* lane before the flag was cleared has been given to the processor, no
\* frame is left on a queue, and no worker thread is running.
IsStopReturn == stop_pc = "join" /\ stop_pc' = "idle"

Range(q) == {q[k] : k \in 1..Len(q)}

C21_StopDrainsThenTerminates ==
    [][IsStopReturn =>
          /\ \A w \in Lanes :
                {lane_accepted[w][k] : k \in 1..stop_seen[w]}
                    \subseteq Range(lane_handled'[w])
          /\ \A w \in Lanes, g \in Generations :
                worker_threads'[w][g].pc = "dead"]_vars

\* C22: the frames a lane gives to the processor are, in order, the first
\* frames the lane accepted.
IsPrefix(p, q) ==
    /\ Len(p) <= Len(q)
    /\ \A k \in 1..Len(p) : p[k] = q[k]

C22_PerLaneOrder ==
    \A w \in Lanes : IsPrefix(lane_handled[w], lane_accepted[w])

\* C23: a start request that finds the supervisor running is answered with
\* the already-running error and changes nothing, a stop request that finds
\* no sniffer is answered as not running and changes nothing, and at most
\* one sniffer is active at any time.
IsStartRequest == \E iface \in Interfaces : ManagerStart(iface)

IsStopRequest == \E stopped \in BOOLEAN : ManagerStop(stopped)

C23_OneSnifferAtMost ==
    [][/\ IsStartRequest /\ ManagerRunning(mgr_sniffer, sniffer_thread) =>
            /\ mgr_ret' = "already_running"
            /\ UNCHANGED <<mgr_sniffer, sniffer_thread, mgr_interface>>
       /\ IsStopRequest /\ mgr_sniffer = Nothing =>
            /\ mgr_ret' = "not_running"
            /\ UNCHANGED <<mgr_sniffer, sniffer_thread, mgr_interface>>
       /\ Cardinality(ActiveSniffers(sniffer_thread')) <= 1]_vars

\* C24: a lookup that matches leaves hit_count one higher than it found it
\* and sets last_hit, and hit_count equals the number of lookups that
\* matched.
IsMatchStep(c) == ti_call[c].pc = "loaded" /\ ti_ret'[c] = "found"
                  /\ ti_matched' = ti_matched + 1

C24_HitCountCountsMatches ==
    [][\A c \in IntelCallers :
          IsMatchStep(c) =>
             /\ ti_row'[1].hit_count = ti_row[1].hit_count + 1
             /\ ti_row'[1].last_hit = Some(now)
             /\ ti_row'[1].hit_count = ti_matched']_vars

\* C25: every call of a backend is made for an action whose status is
\* APPROVED when the call is made, and an action becomes APPROVED only from
\* PENDING, by approve_mitigation, or at its creation.
BecomesApproved(a) ==
    /\ a \in DOMAIN mit_actions'
    /\ mit_actions'[a].status = "approved"
    /\ a \in DOMAIN mit_actions => mit_actions[a].status # "approved"

C25_ExecutedOnlyWhileApproved ==
    [][/\ \A k \in 1..Len(backend_calls') :
             backend_calls'[k].status = "approved"
       /\ \A a \in ActionIds :
             BecomesApproved(a) =>
                \/ a \notin DOMAIN mit_actions /\ mit_ret' = "created"
                \/ /\ a \in DOMAIN mit_actions
                   /\ mit_actions[a].status = "pending"
                   /\ mit_ret' = "approved"]_vars

\* C26: no action is created for a target that is on the whitelist, and no
\* backend is called for a target that is on the whitelist.
IsCreateStep == Len(mit_actions') = Len(mit_actions) + 1

C26_WhitelistedNeverMitigated ==
    [][/\ IsCreateStep =>
             ~_is_whitelisted(whitelist,
                              mit_actions'[Len(mit_actions')].target_ip,
                              mit_actions'[Len(mit_actions')].target_mac)
       /\ \A k \in 1..Len(backend_calls') :
             ~backend_calls'[k].whitelisted]_vars

\* C27: a pending request that has become older than max_age is removed in
\* the end: from then on the table holds what cleanup_old_entries leaves.
HasStaleRequest ==
    pending_requests # cleanup_old_entries(pending_requests, now)

C27_StaleRequestsSwept == HasStaleRequest ~> ~HasStaleRequest

\* C28: a put on a full buffer (strategy "drop", statistics enabled) drops
\* the oldest frame, enqueues the new one and adds 1 to the drop counter,
\* and the buffer never holds more than max_size frames.
IsPutOnFull ==
    /\ nPuts' = nPuts + 1 /\ Len(pb_queue) >= max_size
    /\ pb_config = [overflow_strategy |-> "drop", enable_stats |-> TRUE]

C28_FullBufferDropsOldest ==
    [][/\ Len(pb_queue') <= max_size
       /\ IsPutOnFull =>
             /\ pb_queue' = Append(Tail(pb_queue), nPuts + 1)
             /\ pb_stats'.total_dropped = pb_stats.total_dropped + 1]_vars

\* C29: a DFAFilter.check call on a frame without ARP layer reports nothing
\* suspicious and leaves the IP-MAC map and the flood deques as they were.
C29_NonArpIgnored ==
    [][(IsCheckStep /\ ~lastPkt'.arp) =>
          /\ ~dfa_ret'.is_bad
          /\ ip_mac' = ip_mac
          /\ grat_counts' = grat_counts]_vars

(***************************************************************************)
(* Properties of a broadcast over failing connections  (SpecHub)           *)
(***************************************************************************)
\* a step in which broadcast returns to its caller
IsBroadcastReturn == bc.pc = "sending" /\ bc'.pc = "idle"

\* a step in which send_text fails
IsFailedSend ==
    /\ bc.pc = "sending" /\ bc.i <= Len(bc.conns)
    /\ ws_closed[Target] /\ bc' # bc

Delivered(s, msg) == InSeq(sockbuf[s], msg) \/ InSeq(received[s], msg)

\* C30: a failing send never ends the broadcast: the loop notes the
\* connection and goes on; when broadcast returns it has been through every
\* connection, each failing one is out of the active list and each other
\* one has been handed the message
C30_BroadcastSurvivesFailures ==
    [][/\ IsFailedSend =>
             /\ bc'.pc = "sending" /\ bc'.i = bc.i + 1
             /\ InSeq(bc'.disconnected, Target)
       /\ IsBroadcastReturn =>
             /\ bc.i > Len(bc.conns)
             /\ \A k \in 1..Len(bc.conns) :
                   IF InSeq(bc.disconnected, bc.conns[k])
                   THEN ~InSeq(active_connections', bc.conns[k])
                   ELSE Delivered(bc.conns[k], bc.msg)]_vars

\* a broadcast has been through its connections: one of them failed and is
\* still registered, another one has been handed the message
C30_Witness ==
    /\ bc.pc = "sending" /\ bc.i > Len(bc.conns)
    /\ \E s \in Subscribers :
          InSeq(bc.disconnected, s) /\ InSeq(active_connections, s)
    /\ \E s \in Subscribers :
          /\ InSeq(bc.conns, s) /\ ~InSeq(bc.disconnected, s)
          /\ Delivered(s, bc.msg)

(***************************************************************************)
(* Properties of the learner's control calls  (SpecLife)                   *)
(***************************************************************************)
\* C31: between two control calls the loop thread is alive exactly when the
\* last call that returned was start_continuous_learning
C31_LoopRunsIffStarted ==
    (stopper_pc = "idle" /\ last_control # None) =>
        (LoopAlive <=> last_control = "start")

(***************************************************************************)
(* The flood rule on every ARP frame  (SpecDFA)                            *)
(***************************************************************************)
\* C32: every DFAFilter.check call on an ARP frame leaves the arrival time
\* at the end of the deque of the frame's source MAC, the deque pruned to
\* the window
C32_FloodRuleOnEveryArpFrame ==
    [][(IsCheckStep /\ lastPkt'.arp) =>
          LET dq == grat_counts'[lastPkt'.hwsrc]
          IN  /\ dq # <<>>
              /\ dq[Len(dq)] = now
              /\ dq = PopOld(dq, now)]_vars

(***************************************************************************)
(* Replies reported as unsolicited  (SpecSniffer)                          *)
(***************************************************************************)
\* C33: the anomalies an ARP_ANOMALY alert reports on a reply include
\* "Unsolicited ARP reply" if and only if no pending request matched the
\* reply when it arrived
C33_UnsolicitedIffUnmatched ==
    [][(IsReplyStep /\ handled'.alert.module = "ARP_ANOMALY") =>
          (InSeq(handled'.alert.reason,
                 "Unsolicited ARP reply (no matching request)")
             <=> Answered \notin DOMAIN pending_requests)]_vars

(***************************************************************************)
(* The mode of the network after an update  (SpecCycles)                   *)
(***************************************************************************)
\* a step in which incremental_update, called by thread t, returns or
\* raises
IsUpdateReturn(t) == cyc[t].pc = "training" /\ cyc'[t].pc = "validate"

\* C34: whenever incremental_update ends, by a return or by an exception,
\* the network is in eval mode
C34_EvalModeOnEveryReturn ==
    [][\A t \in CycleThreads : IsUpdateReturn(t) => model_mode' = "eval"]_vars

(***************************************************************************)
(* The order of the events of one subscriber  (SpecFanout)                 *)
(***************************************************************************)
\* the events sent to subscriber s, in the order of the sends
Sent(s) == received[s] \o sockbuf[s]

\* a comes before b in q
ComesBefore(q, a, b) ==
    \E i \in 1..Len(q), j \in 1..Len(q) : i < j /\ q[i] = a /\ q[j] = b

C36_GetStatsReturns == \A c \in StatsCallers : ~SelfBlocked(c)

(***************************************************************************)
(* Properties of concurrent puts  (SpecProducers)                          *)
(***************************************************************************)
\* C37: with the 'drop' strategy no put call ever waits for room in the
\* queue
C37_DropPutNeverBlocks ==
    pb_config.overflow_strategy = "drop" =>
        \A i \in Interfaces : ~PutWaits(i)

(***************************************************************************)
(* Backend calls per action  (SpecMitigation)                              *)
(***************************************************************************)
\* the calls made to a backend for action a
CallsFor(a) == {k \in 1..Len(backend_calls) : backend_calls[k].id = a}

\* C38: a backend is called at most once for any action
C38_BackendCalledOnce == \A a \in ActionIds : Cardinality(CallsFor(a)) <= 1

(***************************************************************************)
(* What an archive call selects  (SpecStore)                               *)
(***************************************************************************)
\* a step in which the archive_alerts call of thread t ends
IsArchiveEnd(t) == arch[t].pc = "selected" /\ arch'[t].pc = "idle"

\* the ids of the alerts a step adds to the archive
NewlyArchived ==
    {archived_alerts'[k].original_id :
        k \in Len(archived_alerts) + 1 .. Len(archived_alerts')}

\* C39: an archive_alerts call that was given a list of ids archives only
\* alerts whose id is in the list, and nothing when the list is empty
C39_ArchivesOnlyListed ==
    [][\A t \in ArchiveThreads :
          (IsArchiveEnd(t) /\ arch[t].ids # <<>>) =>
              NewlyArchived \subseteq arch[t].ids[1]]_vars

(***************************************************************************)
(* The learner's state across a restart  (SpecRestart)                     *)
(***************************************************************************)
IsRestart == nRestarts' = nRestarts + 1

\* the time the last cycle on record ended
LastCycleTime == training_history[Len(training_history)].timestamp

\* C40: a restart brings back last_processed_id and last_training_time as
\* they were, and the loop begins no cycle before learning_interval has
\* passed since the last cycle, the cycles before a restart included
C40_StateSurvivesRestart ==
    [][/\ IsRestart =>
             /\ last_processed_id' = last_processed_id
             /\ last_training_time' = last_training_time
       /\ (loop_pc = "check_count" /\ loop_pc' = "cycle"
             /\ training_history # <<>>) =>
             now - LastCycleTime >= learning_interval]_vars

====
